---- MODULE Spec2Model ----
(***************************************************************************)
(* Retro panel (code/ui/retropanel): the live-state synchronisation        *)
(* pipeline.  A libmosquitto network thread (the Ingress Worker) decodes   *)
(* broker messages and puts them into two mutex-guarded ring buffers; the  *)
(* LVGL thread drains the buffers once per tick and applies the events to  *)
(* the data store.                                                         *)
(*                                                                         *)
(* Specifications of this module:                                          *)
(*   SpecRing  - the two ring buffers at their real sizes (64 and 16),     *)
(*               entries abstracted to sequence numbers;                   *)
(*   SpecLock  - the ring buffers statement by statement, with the two     *)
(*               mutexes, worker thread against LVGL thread;               *)
(*   SpecApply - data_store_apply_update as a function of an arbitrary     *)
(*               store and an arbitrary update;                            *)
(*   Spec      - the pipeline: boot, broker callbacks, drain, commands,    *)
(*               with each critical section taken as one step.             *)
(*   SpecBoot  - app_init statement by statement;                          *)
(*   SpecIngress - on_message on one message out of a large set;           *)
(*   SpecConn  - mqtt_client_init, the connection callbacks and            *)
(*               mqtt_client_cleanup;                                      *)
(*   SpecStore - the store booted from over-long replies and written by    *)
(*               the drain's callbacks.                                    *)
(*   SpecLive  - the pipeline under a main loop that keeps ticking.        *)
(*   SpecStatic - the pipeline with app_cleanup.                            *)
(***************************************************************************)
EXTENDS Integers, Sequences, FiniteSets, TLC

VARIABLES
    state_queue,   \* mqtt_client.c:24  slot index -> entry
    state_head,    \* mqtt_client.c:25  next slot to write
    state_tail,    \* mqtt_client.c:26  next slot to read
    scene_queue,   \* mqtt_client.c:29
    scene_head,    \* mqtt_client.c:30
    scene_tail,    \* mqtt_client.c:31
    store_data,    \* data_store.c:12  the Room Store
    store_live,    \* data_store.c:13
    mosq,          \* mqtt_client.c:34  TRUE: a client handle whose network thread runs
    connected,     \* mqtt_client.c:35
    rest_initialised,   \* rest_client.c:21
    networking_active,  \* app.c:23
    current_view,  \* app.c:21  TRUE: a room view, FALSE: NULL
    scene_ctx,     \* scr_room_view.c:178  the scene list the scene buttons read, by reference
    ui_pc,         \* where the LVGL thread is (main.c:26-35, app.c, mqtt_client.c:259-275)
    live,          \* app_init's local: live && try_live_boot(&room_data)
    room_data,     \* app_init's local room_data_t
    count,         \* mqtt_client_drain_updates' local
    state_mutex,   \* mqtt_client.c:27  "free", or the thread that holds it
    scene_mutex,   \* mqtt_client.c:32
    worker_pc,     \* where the network thread is inside enqueue_state / enqueue_scene
    worker_arg,    \* the entry on_message passes to the enqueue it is in
    out,           \* the entry dequeue_state / dequeue_scene is copying out for the drain
    hist           \* history of the run, read only by the properties

qvars == <<state_queue, state_head, state_tail, scene_queue, scene_head, scene_tail>>
svars == <<store_data, store_live>>
nvars == <<mosq, connected, rest_initialised>>
uvars == <<networking_active, current_view, scene_ctx, ui_pc, live, room_data, count>>
lvars == <<state_mutex, scene_mutex, worker_pc, worker_arg, out>>
vars == <<qvars, svars, nvars, uvars, lvars, hist>>

----------------------------------------------------------------------------
(* Program constants and bounds *)

STATE_QUEUE_SIZE == 64
SCENE_QUEUE_SIZE == 16

\* SpecRing enqueues at most SIZE + RingExtra entries on the ring it exercises.
RingExtra == 2

----------------------------------------------------------------------------
(* Data model: data_model.h.  A C string is the sequence of its characters *)
(* (the terminator left out), so that strcmp is equality and the topic     *)
(* parsers can work on the characters; display names, colours and icons,   *)
(* which the pipeline only copies, are TLA+ strings.  Floats are modelled   *)
(* by integers (the JSON numbers of the model are integral).                *)

MAX_DEVICES_PER_ROOM == 32
MAX_SCENES_PER_ROOM == 16
ID_SIZE == 48          \* char id[48], device_id[48], scene_id[48], room_id[48]

DOMAIN_LIGHTING == 0
DOMAIN_CLIMATE == 1
DOMAIN_BLINDS == 2
DOMAIN_AUDIO == 3
DOMAIN_OTHER == 4

CAP_ON_OFF == 0
CAP_DIM == 1
CAP_POSITION == 2
CAP_TILT == 3
CAP_TEMPERATURE_READ == 4
CAP_TEMPERATURE_SET == 5

HEALTH_ONLINE == 0
HEALTH_OFFLINE == 1
HEALTH_DEGRADED == 2
HEALTH_UNKNOWN == 3

\* device_t after memset(0) with the given identity
Device(id, name, room_id, domain, caps) ==
    [id |-> id, name |-> name, room_id |-> room_id, domain |-> domain,
     capabilities |-> caps, health |-> HEALTH_ONLINE,
     on |-> FALSE, level |-> 0, position |-> 0, tilt |-> 0,
     temperature |-> 0, setpoint |-> 0]

Scene(id, name, room_id, colour, icon, sort_order) ==
    [id |-> id, name |-> name, room_id |-> room_id, colour |-> colour,
     icon |-> icon, enabled |-> TRUE, sort_order |-> sort_order]

Room(id, name, device_count, scene_count, sort_order) ==
    [id |-> id, name |-> name, device_count |-> device_count,
     scene_count |-> scene_count, sort_order |-> sort_order]

\* room_data_t in static storage before data_store_init: all zero.
\* devices and scenes hold the first device_count / scene_count array slots.
ZeroRoomData ==
    [room |-> Room(<<>>, "", 0, 0, 0), devices |-> <<>>, scenes |-> <<>>,
     active_scene_id |-> <<>>]

\* mqtt_state_update_t after memset(0), mqtt_client.h:13-22
ZeroUpdate ==
    [device_id |-> <<>>,
     has_on |-> FALSE, on |-> FALSE,
     has_level |-> FALSE, level |-> 0,
     has_pos |-> FALSE, position |-> 0,
     has_temp |-> FALSE, temperature |-> 0,
     has_sp |-> FALSE, setpoint |-> 0,
     has_health |-> FALSE, health |-> 0]

\* mqtt_scene_event_t after memset(0), mqtt_client.h:24-28
ZeroSceneEvent == [scene_id |-> <<>>, room_id |-> <<>>]

\* snprintf(dst, size, "%s", src): at most size - 1 characters are kept
snprintf_s(src, size) == IF Len(src) <= size - 1 THEN src ELSE SubSeq(src, 1, size - 1)

\* (uint8_t)x for an int x
uint8(x) == x % 256

----------------------------------------------------------------------------
(* Data store: data_store.c *)

\* Faulty variant: the level is written whether or not the update carries one.
apply_fields_level_always(dev, update) ==
    [dev EXCEPT
        !.on          = IF update.has_on THEN update.on ELSE @,
        !.level       = uint8(update.level),
        !.position    = IF update.has_pos THEN uint8(update.position) ELSE @,
        !.temperature = IF update.has_temp THEN update.temperature ELSE @,
        !.setpoint    = IF update.has_sp THEN update.setpoint ELSE @,
        !.health      = IF update.has_health THEN update.health ELSE @]

\* Faulty variant: the level an update carries is added to the stored level
apply_fields_level_relative(dev, update) ==
    [dev EXCEPT
        !.on          = IF update.has_on THEN update.on ELSE @,
        !.level       = IF update.has_level THEN uint8(@ + update.level) ELSE @,
        !.position    = IF update.has_pos THEN uint8(update.position) ELSE @,
        !.temperature = IF update.has_temp THEN update.temperature ELSE @,
        !.setpoint    = IF update.has_sp THEN update.setpoint ELSE @,
        !.health      = IF update.has_health THEN update.health ELSE @]

\* data_store.c:35-40, the field assignments on the matching device
apply_fields(dev, update) ==
    [dev EXCEPT
        !.on          = IF update.has_on THEN update.on ELSE @,
        !.level       = IF update.has_level THEN uint8(update.level) ELSE @,
        !.position    = IF update.has_pos THEN uint8(update.position) ELSE @,
        !.temperature = IF update.has_temp THEN update.temperature ELSE @,
        !.setpoint    = IF update.has_sp THEN update.setpoint ELSE @,
        !.health      = IF update.has_health THEN update.health ELSE @]

\* data_store.c:31-42: the index of the first device whose id is the
\* update's, 0 when the loop ends without a match
FindDevice(data, device_id) ==
    LET hits == {i \in 1..Len(data.devices) : data.devices[i].id = device_id}
    IN  IF hits = {} THEN 0 ELSE CHOOSE i \in hits : \A j \in hits : i <= j

\* Faulty variant: an update whose id matches no device lands on the first one
data_store_apply_update_first_on_miss(data, update) ==
    LET i == FindDevice(data, update.device_id)
    IN  IF Len(data.devices) = 0 THEN data
        ELSE [data EXCEPT !.devices[IF i = 0 THEN 1 ELSE i] = apply_fields(@, update)]

\* Faulty variant: an update whose id matches no device adds a device
data_store_apply_update_upsert(data, update) ==
    LET i == FindDevice(data, update.device_id)
    IN  IF i = 0
        THEN [data EXCEPT !.devices =
                 Append(@, apply_fields(Device(update.device_id, "", <<>>, 0, <<>>), update))]
        ELSE [data EXCEPT !.devices[i] = apply_fields(@, update)]

\* data_store.c:27-43: store_data after the call
data_store_apply_update(data, update) ==
    LET i == FindDevice(data, update.device_id)
    IN  IF i = 0 THEN data
        ELSE [data EXCEPT !.devices[i] = apply_fields(@, update)]

\* Faulty variant: every call takes the branch for a NULL scene_id
data_store_set_active_scene_cleared(data, scene_id) ==
    [data EXCEPT !.active_scene_id = <<>>]

\* data_store.c:45-53, scene_id not NULL
data_store_set_active_scene(data, scene_id) ==
    [data EXCEPT !.active_scene_id = snprintf_s(scene_id, ID_SIZE)]

\* data_store.c:15-20, data not NULL: memcpy of the whole room_data_t
data_store_init(data) == data

----------------------------------------------------------------------------
(* Ring buffers: mqtt_client.c:39-85.  A queue value is the triple of the   *)
(* slot array and the two indices; SIZE is the length of the slot array.    *)

Queue(buf, head, tail) == [buf |-> buf, head |-> head, tail |-> tail]

\* Faulty variant: a full ring refuses the new entry instead of dropping the oldest.
enqueue_state_drop_newest(q, update, SIZE) ==
    IF (q.head + 1) % SIZE = q.tail
    THEN q
    ELSE [buf  |-> [q.buf EXCEPT ![q.head] = update],
          head |-> (q.head + 1) % SIZE,
          tail |-> q.tail]

\* Faulty variant: the head catches up with the tail and the tail is left where it is.
enqueue_scene_no_drop(q, event, SIZE) ==
    [buf  |-> [q.buf EXCEPT ![q.head] = event],
     head |-> (q.head + 1) % SIZE,
     tail |-> q.tail]

\* Faulty variant: on a full ring the tail skips the two oldest entries.
enqueue_state_drop_two(q, update, SIZE) ==
    LET head1 == (q.head + 1) % SIZE
    IN  [buf  |-> [q.buf EXCEPT ![q.head] = update],
         head |-> head1,
         tail |-> IF head1 = q.tail THEN (q.tail + 2) % SIZE ELSE q.tail]

\* mqtt_client.c:39-48, the critical section as one step
enqueue_state(q, update, SIZE) ==
    LET head1 == (q.head + 1) % SIZE
    IN  [buf  |-> [q.buf EXCEPT ![q.head] = update],
         head |-> head1,
         tail |-> IF head1 = q.tail THEN (q.tail + 1) % SIZE ELSE q.tail]

\* Faulty variant: the newest entry is handed out in place of the oldest
dequeue_state_newest(q, SIZE) ==
    IF q.head = q.tail
    THEN [ok |-> FALSE, q |-> q]
    ELSE [ok |-> TRUE, out |-> q.buf[(q.head + SIZE - 1) % SIZE],
          q |-> [q EXCEPT !.tail = (q.tail + 1) % SIZE]]

\* dequeue_state, lines 52-60: ok is the return value, out is *update
\* (left alone when the queue is empty)
dequeue_state(q, SIZE) ==
    IF q.head = q.tail
    THEN [ok |-> FALSE, q |-> q]
    ELSE [ok |-> TRUE, out |-> q.buf[q.tail],
          q |-> [q EXCEPT !.tail = (q.tail + 1) % SIZE]]

enqueue_scene(q, event, SIZE) ==
    LET head1 == (q.head + 1) % SIZE
    IN  [buf  |-> [q.buf EXCEPT ![q.head] = event],
         head |-> head1,
         tail |-> IF head1 = q.tail THEN (q.tail + 1) % SIZE ELSE q.tail]

\* A dequeue that copies the oldest entry out and leaves it in the ring
dequeue_scene_peek(q, SIZE) ==
    IF q.head = q.tail
    THEN [ok |-> FALSE, q |-> q]
    ELSE [ok |-> TRUE, out |-> q.buf[q.tail], q |-> q]

dequeue_scene(q, SIZE) ==
    IF q.head = q.tail
    THEN [ok |-> FALSE, q |-> q]
    ELSE [ok |-> TRUE, out |-> q.buf[q.tail],
          q |-> [q EXCEPT !.tail = (q.tail + 1) % SIZE]]

\* The entries a run of dequeues would return, oldest first.
Pending(q, SIZE) ==
    [i \in 1..((q.head - q.tail + SIZE) % SIZE) |-> q.buf[(q.tail + i - 1) % SIZE]]

StateQ == Queue(state_queue, state_head, state_tail)
SceneQ == Queue(scene_queue, scene_head, scene_tail)

LastN(s, n) == IF Len(s) <= n THEN s ELSE SubSeq(s, Len(s) - n + 1, Len(s))

----------------------------------------------------------------------------
(* Ingress: topic parsing and message decoding, mqtt_client.c:87-206 *)

DEVICE_PREFIX == <<"g", "r", "a", "y", "l", "o", "g", "i", "c", "/", "c", "o", "r", "e", "/", "d", "e", "v", "i", "c", "e", "/">>
STATE_SUFFIX == <<"/", "s", "t", "a", "t", "e">>
SCENE_PREFIX == <<"g", "r", "a", "y", "l", "o", "g", "i", "c", "/", "c", "o", "r", "e", "/", "s", "c", "e", "n", "e", "/">>
ACTIVATED_SUFFIX == <<"/", "a", "c", "t", "i", "v", "a", "t", "e", "d">>

\* strncmp(topic, prefix, strlen(prefix)) == 0
HasPrefix(topic, prefix) ==
    /\ Len(topic) >= Len(prefix)
    /\ SubSeq(topic, 1, Len(prefix)) = prefix

\* strstr(s, pat) as the offset of the first occurrence, -1 for NULL
strstr(s, pat) ==
    LET at == {i \in 0..(Len(s) - Len(pat)) : SubSeq(s, i + 1, i + Len(pat)) = pat}
    IN  IF at = {} THEN -1 ELSE CHOOSE i \in at : \A j \in at : i <= j

\* A length test that lets an id of exactly size characters through
parse_device_topic_off_by_one(topic, size) ==
    IF ~HasPrefix(topic, DEVICE_PREFIX) THEN [ok |-> FALSE]
    ELSE LET start == SubSeq(topic, Len(DEVICE_PREFIX) + 1, Len(topic))
             len == strstr(start, STATE_SUFFIX)
         IN  IF len = -1 THEN [ok |-> FALSE]
             ELSE IF len <= 0 \/ len > size THEN [ok |-> FALSE]
             ELSE [ok |-> TRUE, id |-> SubSeq(start, 1, len)]

\* mqtt_client.c:92-106; ok is the return value, id the buffer on success
parse_device_topic(topic, size) ==
    IF ~HasPrefix(topic, DEVICE_PREFIX) THEN [ok |-> FALSE]
    ELSE LET start == SubSeq(topic, Len(DEVICE_PREFIX) + 1, Len(topic))
             len == strstr(start, STATE_SUFFIX)
         IN  IF len = -1 THEN [ok |-> FALSE]
             ELSE IF len <= 0 \/ len >= size THEN [ok |-> FALSE]
             ELSE [ok |-> TRUE, id |-> SubSeq(start, 1, len)]

\* mqtt_client.c:111-125
parse_scene_topic(topic, size) ==
    IF ~HasPrefix(topic, SCENE_PREFIX) THEN [ok |-> FALSE]
    ELSE LET start == SubSeq(topic, Len(SCENE_PREFIX) + 1, Len(topic))
             len == strstr(start, ACTIVATED_SUFFIX)
         IN  IF len = -1 THEN [ok |-> FALSE]
             ELSE IF len <= 0 \/ len >= size THEN [ok |-> FALSE]
             ELSE [ok |-> TRUE, id |-> SubSeq(start, 1, len)]

\* cJSON values.  A payload is its length and what cJSON_ParseWithLength makes
\* of it: JNULL for a parse failure, or a value.
JNULL == [type |-> "NULL"]
JBool(b) == [type |-> "bool", v |-> b]
JNum(n) == [type |-> "number", v |-> n]
JStr(str) == [type |-> "string", v |-> str]
JObj(items) == [type |-> "object", items |-> items]

cJSON_GetObjectItem(object, key) ==
    IF object.type = "object" /\ key \in DOMAIN object.items
    THEN object.items[key] ELSE JNULL

cJSON_IsBool(item) == item.type = "bool"
cJSON_IsNumber(item) == item.type = "number"
cJSON_IsString(item) == item.type = "string"

INT_MAX == 2147483647
\* cJSON's valueint: the number cast to int, saturating
valueint(item) ==
    IF item.v >= INT_MAX THEN INT_MAX
    ELSE IF item.v <= -INT_MAX - 1 THEN -INT_MAX - 1 ELSE item.v

EMPTY_PAYLOAD == [len |-> 0, json |-> JNULL]
Payload(json) == [len |-> 1, json |-> json]

\* A decoder that reads the fields from the payload itself even when it has
\* a "state" member
DecodeStateUpdate_flat(device_id, json) ==
    LET on == cJSON_GetObjectItem(json, "on")
        level == cJSON_GetObjectItem(json, "level")
        pos == cJSON_GetObjectItem(json, "position")
        temp == cJSON_GetObjectItem(json, "temperature")
        sp == cJSON_GetObjectItem(json, "setpoint")
    IN  [ZeroUpdate EXCEPT
            !.device_id = snprintf_s(device_id, ID_SIZE),
            !.has_on = cJSON_IsBool(on),
            !.on = IF cJSON_IsBool(on) THEN on.v ELSE FALSE,
            !.has_level = cJSON_IsNumber(level),
            !.level = IF cJSON_IsNumber(level) THEN valueint(level) ELSE 0,
            !.has_pos = cJSON_IsNumber(pos),
            !.position = IF cJSON_IsNumber(pos) THEN valueint(pos) ELSE 0,
            !.has_temp = cJSON_IsNumber(temp),
            !.temperature = IF cJSON_IsNumber(temp) THEN temp.v ELSE 0,
            !.has_sp = cJSON_IsNumber(sp),
            !.setpoint = IF cJSON_IsNumber(sp) THEN sp.v ELSE 0]

\* A decoder that also reads a numeric "health" member
DecodeStateUpdate_health(device_id, json) ==
    LET st == cJSON_GetObjectItem(json, "state")
        state == IF st.type = "NULL" THEN json ELSE st
        on == cJSON_GetObjectItem(state, "on")
        level == cJSON_GetObjectItem(state, "level")
        pos == cJSON_GetObjectItem(state, "position")
        temp == cJSON_GetObjectItem(state, "temperature")
        sp == cJSON_GetObjectItem(state, "setpoint")
        health == cJSON_GetObjectItem(state, "health")
    IN  [ZeroUpdate EXCEPT
            !.device_id = snprintf_s(device_id, ID_SIZE),
            !.has_on = cJSON_IsBool(on),
            !.on = IF cJSON_IsBool(on) THEN on.v ELSE FALSE,
            !.has_level = cJSON_IsNumber(level),
            !.level = IF cJSON_IsNumber(level) THEN valueint(level) ELSE 0,
            !.has_pos = cJSON_IsNumber(pos),
            !.position = IF cJSON_IsNumber(pos) THEN valueint(pos) ELSE 0,
            !.has_temp = cJSON_IsNumber(temp),
            !.temperature = IF cJSON_IsNumber(temp) THEN temp.v ELSE 0,
            !.has_sp = cJSON_IsNumber(sp),
            !.setpoint = IF cJSON_IsNumber(sp) THEN sp.v ELSE 0,
            !.has_health = cJSON_IsNumber(health),
            !.health = IF cJSON_IsNumber(health) THEN valueint(health) ELSE 0]

\* mqtt_client.c:165-185: the update built from the parsed payload
DecodeStateUpdate(device_id, json) ==
    LET st == cJSON_GetObjectItem(json, "state")
        state == IF st.type = "NULL" THEN json ELSE st
        on == cJSON_GetObjectItem(state, "on")
        level == cJSON_GetObjectItem(state, "level")
        pos == cJSON_GetObjectItem(state, "position")
        temp == cJSON_GetObjectItem(state, "temperature")
        sp == cJSON_GetObjectItem(state, "setpoint")
    IN  [ZeroUpdate EXCEPT
            !.device_id = snprintf_s(device_id, ID_SIZE),
            !.has_on = cJSON_IsBool(on),
            !.on = IF cJSON_IsBool(on) THEN on.v ELSE FALSE,
            !.has_level = cJSON_IsNumber(level),
            !.level = IF cJSON_IsNumber(level) THEN valueint(level) ELSE 0,
            !.has_pos = cJSON_IsNumber(pos),
            !.position = IF cJSON_IsNumber(pos) THEN valueint(pos) ELSE 0,
            !.has_temp = cJSON_IsNumber(temp),
            !.temperature = IF cJSON_IsNumber(temp) THEN temp.v ELSE 0,
            !.has_sp = cJSON_IsNumber(sp),
            !.setpoint = IF cJSON_IsNumber(sp) THEN sp.v ELSE 0]

\* An event builder that never reads the room id
DecodeSceneEvent_no_room(scene_id, json) ==
    [ZeroSceneEvent EXCEPT !.scene_id = snprintf_s(scene_id, ID_SIZE)]

\* mqtt_client.c:193-203: the event built from the (possibly unparsed) payload
DecodeSceneEvent(scene_id, json) ==
    LET rid == cJSON_GetObjectItem(json, "room_id")
    IN  [ZeroSceneEvent EXCEPT
            !.scene_id = snprintf_s(scene_id, ID_SIZE),
            !.room_id = IF cJSON_IsString(rid) THEN snprintf_s(rid.v, ID_SIZE) ELSE <<>>]

\* mqtt_client.c:149-206: what on_message enqueues for a message, if anything
Decode(msg) ==
    LET dev == parse_device_topic(msg.topic, ID_SIZE)
        scn == parse_scene_topic(msg.topic, ID_SIZE)
    IN  IF msg.payload.len = 0 THEN [to |-> "none"]
        ELSE IF dev.ok
             THEN IF msg.payload.json.type = "NULL" THEN [to |-> "none"]
                  ELSE [to |-> "state",
                        entry |-> DecodeStateUpdate(dev.id, msg.payload.json)]
        ELSE IF scn.ok
             THEN [to |-> "scene",
                   entry |-> DecodeSceneEvent(scn.id, msg.payload.json)]
        ELSE [to |-> "none"]

----------------------------------------------------------------------------
(* Boot: data_model.c:16-137 and app.c:58-143 *)

ROOM_LIVING == <<"r", "o", "o", "m", "-", "l", "i", "v", "i", "n", "g", "-", "1">>
ID_LIGHT_CEILING == <<"l", "i", "g", "h", "t", "-", "l", "i", "v", "i", "n", "g", "-", "c", "e", "i", "l", "i", "n", "g">>
ID_LIGHT_FLOOR == <<"l", "i", "g", "h", "t", "-", "l", "i", "v", "i", "n", "g", "-", "f", "l", "o", "o", "r">>
ID_LIGHT_READING == <<"l", "i", "g", "h", "t", "-", "l", "i", "v", "i", "n", "g", "-", "r", "e", "a", "d", "i", "n", "g">>
ID_BLIND_MAIN == <<"b", "l", "i", "n", "d", "-", "l", "i", "v", "i", "n", "g", "-", "m", "a", "i", "n">>
ID_CLIMATE_THERMO == <<"c", "l", "i", "m", "a", "t", "e", "-", "l", "i", "v", "i", "n", "g", "-", "t", "h", "e", "r", "m", "o">>
ID_SCENE_EVENING == <<"s", "c", "e", "n", "e", "-", "e", "v", "e", "n", "i", "n", "g">>
ID_SCENE_MOVIE == <<"s", "c", "e", "n", "e", "-", "m", "o", "v", "i", "e">>
ID_SCENE_MORNING == <<"s", "c", "e", "n", "e", "-", "m", "o", "r", "n", "i", "n", "g">>
ID_SCENE_ALL_OFF == <<"s", "c", "e", "n", "e", "-", "a", "l", "l", "-", "o", "f", "f">>

\* data_model.c:16-137.  Temperatures are in tenths of a degree here
\* (22.5f, 22.0f).
demo_data_create ==
    [room |-> Room(ROOM_LIVING, "Living Room", 5, 4, 1),
     devices |-> <<
        [Device(ID_LIGHT_CEILING, "Ceiling", ROOM_LIVING, DOMAIN_LIGHTING,
                <<CAP_ON_OFF, CAP_DIM>>) EXCEPT !.on = TRUE, !.level = 75],
        [Device(ID_LIGHT_FLOOR, "Floor Lamp", ROOM_LIVING, DOMAIN_LIGHTING,
                <<CAP_ON_OFF, CAP_DIM>>) EXCEPT !.on = TRUE, !.level = 40],
        [Device(ID_LIGHT_READING, "Reading", ROOM_LIVING, DOMAIN_LIGHTING,
                <<CAP_ON_OFF>>) EXCEPT !.on = TRUE, !.level = 100],
        [Device(ID_BLIND_MAIN, "Blinds", ROOM_LIVING, DOMAIN_BLINDS,
                <<CAP_POSITION>>) EXCEPT !.on = TRUE, !.position = 50],
        [Device(ID_CLIMATE_THERMO, "Thermostat", ROOM_LIVING, DOMAIN_CLIMATE,
                <<CAP_TEMPERATURE_READ, CAP_TEMPERATURE_SET>>)
            EXCEPT !.on = TRUE, !.temperature = 225, !.setpoint = 220] >>,
     scenes |-> <<
        Scene(ID_SCENE_EVENING, "Evening", ROOM_LIVING, "#F5A623", "evening", 1),
        Scene(ID_SCENE_MOVIE, "Movie", ROOM_LIVING, "#CC5500", "movie", 2),
        Scene(ID_SCENE_MORNING, "Morning", ROOM_LIVING, "#FFF8E7", "morning", 3),
        Scene(ID_SCENE_ALL_OFF, "All Off", ROOM_LIVING, "#6B7B3A", "off", 4) >>,
     active_scene_id |-> ID_SCENE_EVENING]

\* A validity test that asks for the token only
panel_config_is_valid_token_only(cfg) == cfg.panel_token # <<>>

\* panel_config.c:39-42
panel_config_is_valid(cfg) == cfg.panel_token # <<>> /\ cfg.room_id # <<>>

FirstN(seq, n) == IF Len(seq) <= n THEN seq ELSE SubSeq(seq, 1, n)

\* A search without the break of app.c:80: the last matching room wins
ResolveRoom_last(rooms, room_id) ==
    LET hits == {i \in 1..Len(rooms) : rooms[i].id = room_id}
    IN  IF hits = {} THEN 1 ELSE CHOOSE i \in hits : \A j \in hits : i >= j

\* app.c:75-86: the index of the configured room among the rooms returned,
\* the first room when there is none
ResolveRoom(rooms, room_id) ==
    LET hits == {i \in 1..Len(rooms) : rooms[i].id = room_id}
    IN  IF hits = {} THEN 1 ELSE CHOOSE i \in hits : \A j \in hits : i <= j

\* A boot that gives up when mqtt_client_init fails
try_live_boot_needs_mqtt(cfg, rooms, devices, scenes, mqtt_ok, data) ==
    IF ~panel_config_is_valid(cfg)
    THEN [ret |-> FALSE, data |-> data, rest_initialised |-> FALSE, mosq |-> FALSE]
    ELSE IF Len(rooms) = 0
    THEN [ret |-> FALSE, data |-> data, rest_initialised |-> FALSE, mosq |-> FALSE]
    ELSE [ret |-> mqtt_ok,
          data |-> [room |-> rooms[ResolveRoom(rooms, cfg.room_id)],
                    devices |-> FirstN(devices, MAX_DEVICES_PER_ROOM),
                    scenes |-> FirstN(scenes.scenes, MAX_SCENES_PER_ROOM),
                    active_scene_id |-> snprintf_s(scenes.active, ID_SIZE)],
          rest_initialised |-> TRUE,
          mosq |-> mqtt_ok]

\* app.c:60-114.  rooms, devices, scenes are what the three REST loads return
\* (rest_client.c:136-338) and mqtt_ok is the outcome of mqtt_client_init
\* (mqtt_client.c:210-245).  The result gives the return value, *data, and
\* the statics the call leaves behind; data is left as it was when the call
\* fails.
try_live_boot(cfg, rooms, devices, scenes, mqtt_ok, data) ==
    IF ~panel_config_is_valid(cfg)
    THEN [ret |-> FALSE, data |-> data, rest_initialised |-> FALSE, mosq |-> FALSE]
    ELSE IF Len(rooms) = 0
    THEN [ret |-> FALSE, data |-> data, rest_initialised |-> FALSE, mosq |-> FALSE]
    ELSE [ret |-> TRUE,
          data |-> [room |-> rooms[ResolveRoom(rooms, cfg.room_id)],
                    devices |-> FirstN(devices, MAX_DEVICES_PER_ROOM),
                    scenes |-> FirstN(scenes.scenes, MAX_SCENES_PER_ROOM),
                    active_scene_id |-> snprintf_s(scenes.active, ID_SIZE)],
          rest_initialised |-> TRUE,
          mosq |-> mqtt_ok]

\* scene_ctx before scr_room_view_create has written it (static storage)
NoSceneCtx == [scenes |-> "NULL", scene_count |-> 0]

\* scr_room_view.c:315-402, what scr_room_view_create(data) leaves in
\* current_view and scene_ctx: ref names the object its argument points to
\* and data is that object's value; rv is whether lv_malloc gave a view.
\* scene_ctx.scenes is the pointer data->scenes, kept as a reference.
scr_room_view_create(ref, data, rv, ctx) ==
    [view |-> rv,
     scene_ctx |-> IF rv /\ Len(data.scenes) > 0
                   THEN [scenes |-> ref, scene_count |-> Len(data.scenes)]
                   ELSE ctx]

\* The statics of mqtt_client.c, rest_client.c and app.c at program start, and
\* the LVGL thread about to call app_init.
AppNotStarted ==
    /\ mosq = FALSE
    /\ connected = FALSE
    /\ rest_initialised = FALSE
    /\ networking_active = FALSE
    /\ current_view = FALSE
    /\ scene_ctx = NoSceneCtx
    /\ ui_pc = "app_init"
    /\ live = FALSE
    /\ room_data = ZeroRoomData
    /\ count = 0
    /\ state_mutex = "free"
    /\ scene_mutex = "free"
    /\ worker_pc = "idle"
    /\ worker_arg = 0
    /\ out = 0

----------------------------------------------------------------------------
(* SpecRing: one of the two rings, at its real size, under any sequence of  *)
(* enqueues and dequeues.  Entries are the numbers 1, 2, 3, ...; the slots  *)
(* start zeroed (static storage).  hist.run is the entries enqueued since   *)
(* the last successful dequeue before them, hist.got the entries returned   *)
(* by the dequeues since the last enqueue.                                  *)

RingSize(sel) == IF sel = "state" THEN STATE_QUEUE_SIZE ELSE SCENE_QUEUE_SIZE

InitRing ==
    /\ state_queue = [i \in 0..(STATE_QUEUE_SIZE - 1) |-> 0]
    /\ state_head = 0
    /\ state_tail = 0
    /\ scene_queue = [i \in 0..(SCENE_QUEUE_SIZE - 1) |-> 0]
    /\ scene_head = 0
    /\ scene_tail = 0
    /\ store_data = ZeroRoomData
    /\ store_live = FALSE
    /\ AppNotStarted
    /\ \E sel \in {"state", "scene"} :
          hist = [sel |-> sel, next |-> 1, run |-> <<>>, got |-> <<>>, live |-> 0]

\* q0 is the ring before the enqueue and q1 after it: the enqueue dropped the
\* oldest unread entry when it moved the tail.
RingNoteEnq(q0, q1) ==
    hist' = [hist EXCEPT !.next = @ + 1,
                         !.live = IF q1.tail = q0.tail THEN @ + 1 ELSE @,
                         !.run = IF hist.got = <<>> THEN Append(@, hist.next)
                                                     ELSE <<hist.next>>,
                         !.got = <<>>]

RingNoteDeq(r) ==
    hist' = [hist EXCEPT !.got = IF r.ok THEN Append(@, r.out) ELSE @,
                         !.live = IF r.ok THEN @ - 1 ELSE @]

RingEnqueueState ==
    /\ hist.sel = "state"
    /\ hist.next <= STATE_QUEUE_SIZE + RingExtra
    /\ LET q == enqueue_state(StateQ, hist.next, STATE_QUEUE_SIZE)
       IN  /\ state_queue' = q.buf
           /\ state_head' = q.head
           /\ state_tail' = q.tail
           /\ RingNoteEnq(StateQ, q)
    /\ UNCHANGED <<scene_queue, scene_head, scene_tail, svars, nvars, uvars, lvars>>

RingDequeueState ==
    /\ hist.sel = "state"
    /\ LET r == dequeue_state(StateQ, STATE_QUEUE_SIZE)
       IN  /\ state_queue' = r.q.buf
           /\ state_head' = r.q.head
           /\ state_tail' = r.q.tail
           /\ RingNoteDeq(r)
    /\ UNCHANGED <<scene_queue, scene_head, scene_tail, svars, nvars, uvars, lvars>>

RingEnqueueScene ==
    /\ hist.sel = "scene"
    /\ hist.next <= SCENE_QUEUE_SIZE + RingExtra
    /\ LET q == enqueue_scene(SceneQ, hist.next, SCENE_QUEUE_SIZE)
       IN  /\ scene_queue' = q.buf
           /\ scene_head' = q.head
           /\ scene_tail' = q.tail
           /\ RingNoteEnq(SceneQ, q)
    /\ UNCHANGED <<state_queue, state_head, state_tail, svars, nvars, uvars, lvars>>

RingDequeueScene ==
    /\ hist.sel = "scene"
    /\ LET r == dequeue_scene(SceneQ, SCENE_QUEUE_SIZE)
       IN  /\ scene_queue' = r.q.buf
           /\ scene_head' = r.q.head
           /\ scene_tail' = r.q.tail
           /\ RingNoteDeq(r)
    /\ UNCHANGED <<state_queue, state_head, state_tail, svars, nvars, uvars, lvars>>

NextRing ==
    \/ RingEnqueueState
    \/ RingDequeueState
    \/ RingEnqueueScene
    \/ RingDequeueScene

SpecRing == InitRing /\ [][NextRing]_vars

RingQ == IF hist.sel = "state" THEN StateQ ELSE SceneQ

\* C1 as stated: after SIZE + 1 enqueues with no dequeue in between, exactly
\* SIZE entries are retained and they are the SIZE most recently enqueued.
C1_AsStated ==
    (Len(hist.run) >= RingSize(hist.sel) + 1 /\ hist.got = <<>>)
        => Pending(RingQ, RingSize(hist.sel)) = LastN(hist.run, RingSize(hist.sel))

\* C1, amended: after SIZE + 1 (or more) enqueues with no dequeue in between,
\* exactly SIZE - 1 entries are retained, they are the SIZE - 1 most recently
\* enqueued, and the dequeues that follow return them in their original order
\* (what has been returned so far, followed by what is still pending, is the
\* sequence of the SIZE - 1 most recent entries).
C1_Overwrite ==
    Len(hist.run) >= RingSize(hist.sel) + 1
        => /\ hist.got \o Pending(RingQ, RingSize(hist.sel))
                = LastN(hist.run, RingSize(hist.sel) - 1)
           /\ Len(hist.got) + Len(Pending(RingQ, RingSize(hist.sel)))
                = RingSize(hist.sel) - 1

\* SIZE + 1 enqueues on the state ring, then every retained entry dequeued.
C1_Witness ==
    /\ hist.sel = "state"
    /\ Len(hist.run) = STATE_QUEUE_SIZE + 1
    /\ Len(hist.got) = STATE_QUEUE_SIZE - 1
    /\ state_head = state_tail

\* C3: the head and tail of each ring stay in 0..SIZE-1 and the number of
\* pending entries (enqueued, neither dequeued nor dropped) never exceeds
\* the ring's capacity.
C3_QueueBound ==
    /\ state_head \in 0..(STATE_QUEUE_SIZE - 1)
    /\ state_tail \in 0..(STATE_QUEUE_SIZE - 1)
    /\ scene_head \in 0..(SCENE_QUEUE_SIZE - 1)
    /\ scene_tail \in 0..(SCENE_QUEUE_SIZE - 1)
    /\ hist.live >= 0
    /\ hist.live <= RingSize(hist.sel)
    /\ hist.live = Len(Pending(RingQ, RingSize(hist.sel)))

\* A ring that has wrapped and dropped entries, at its fullest.
C3_Witness ==
    /\ hist.sel = "scene"
    /\ hist.next > SCENE_QUEUE_SIZE + 1
    /\ hist.live = SCENE_QUEUE_SIZE - 1

----------------------------------------------------------------------------
(* SpecApply: data_store_apply_update on an arbitrary store and an          *)
(* arbitrary update, applied up to MaxApply times in a row.  hist.pre is    *)
(* the store before the first application and hist.once the store after it. *)

d1 == <<"d", "1">>
d2 == <<"d", "2">>
d3 == <<"d", "3">>
s1 == <<"s", "1">>
s2 == <<"s", "2">>
r1 == <<"r", "1">>
r2 == <<"r", "2">>

MaxApplyDevices == 2
MaxApply == 2

\* A device as rest_load_devices leaves it when the response carries no state
DevA(id) == Device(id, "Lamp", r1, DOMAIN_LIGHTING, <<CAP_ON_OFF, CAP_DIM>>)
\* and one with every state field set
DevB(id) ==
    [Device(id, "Blind", r1, DOMAIN_BLINDS, <<CAP_POSITION, CAP_TILT>>) EXCEPT
        !.health = HEALTH_DEGRADED, !.on = TRUE, !.level = 75, !.position = 50,
        !.tilt = 10, !.temperature = 225, !.setpoint = 220]

ApplyDevices == {DevA(d1), DevB(d1), DevA(d2), DevB(d2)}

SeqsUpTo(S, n) == UNION {[1..k -> S] : k \in 0..n}

ApplyStores ==
    {[ZeroRoomData EXCEPT !.room = Room(r1, "Room", Len(devs), 2, 1),
                          !.devices = devs,
                          !.scenes = <<Scene(s1, "Day", r1, "#FFFFFF", "day", 1),
                                       Scene(s2, "Night", r1, "#000000", "night", 2)>>,
                          !.active_scene_id = s1]
        : devs \in SeqsUpTo(ApplyDevices, MaxApplyDevices)}

\* The values an update may carry: in range, and out of the 0..100 range
\* (above 255 and negative) for the two narrowed fields.
ApplyValues ==
    {[on |-> TRUE, level |-> 50, position |-> 30, temperature |-> 215,
      setpoint |-> 210, health |-> HEALTH_OFFLINE],
     [on |-> FALSE, level |-> 300, position |-> -1, temperature |-> -5,
      setpoint |-> 0, health |-> HEALTH_UNKNOWN]}

ApplyUpdates ==
    {[device_id |-> id,
      has_on |-> f[1], on |-> v.on,
      has_level |-> f[2], level |-> v.level,
      has_pos |-> f[3], position |-> v.position,
      has_temp |-> f[4], temperature |-> v.temperature,
      has_sp |-> f[5], setpoint |-> v.setpoint,
      has_health |-> f[6], health |-> v.health]
        : id \in {d1, d2, d3}, f \in [1..6 -> BOOLEAN], v \in ApplyValues}

InitApply ==
    /\ state_queue = [i \in 0..(STATE_QUEUE_SIZE - 1) |-> 0]
    /\ state_head = 0
    /\ state_tail = 0
    /\ scene_queue = [i \in 0..(SCENE_QUEUE_SIZE - 1) |-> 0]
    /\ scene_head = 0
    /\ scene_tail = 0
    /\ store_data \in ApplyStores
    /\ store_live = FALSE
    /\ AppNotStarted
    /\ \E u \in ApplyUpdates :
          hist = [update |-> u, pre |-> store_data, once |-> store_data, n |-> 0]

ApplyUpdate ==
    /\ hist.n < MaxApply
    /\ store_data' = data_store_apply_update(store_data, hist.update)
    /\ hist' = [hist EXCEPT !.n = @ + 1,
                            !.once = IF hist.n = 0 THEN store_data' ELSE @]
    /\ UNCHANGED <<qvars, store_live, nvars, uvars, lvars>>

NextApply == ApplyUpdate

SpecApply == InitApply /\ [][NextApply]_vars

\* The state fields an update can carry, with the flag that marks each present
UpdateFields == {"on", "level", "position", "temperature", "setpoint", "health"}

Present(update, f) ==
    CASE f = "on" -> update.has_on
      [] f = "level" -> update.has_level
      [] f = "position" -> update.has_pos
      [] f = "temperature" -> update.has_temp
      [] f = "setpoint" -> update.has_sp
      [] f = "health" -> update.has_health

FieldOf(dev, f) ==
    CASE f = "on" -> dev.on
      [] f = "level" -> dev.level
      [] f = "position" -> dev.position
      [] f = "temperature" -> dev.temperature
      [] f = "setpoint" -> dev.setpoint
      [] f = "health" -> dev.health

StrictSubset(update) == \E f \in UpdateFields : ~Present(update, f)

\* C4: an update that carries only a strict subset of the six fields leaves,
\* on every device it is addressed to, each absent field and the tilt, id,
\* name, domain and capabilities at their values from before the update.
C4_PartialUpdate ==
    (hist.n = 1 /\ StrictSubset(hist.update)) =>
        /\ Len(store_data.devices) = Len(hist.pre.devices)
        /\ \A i \in 1..Len(hist.pre.devices) :
              hist.pre.devices[i].id = hist.update.device_id =>
                  /\ \A f \in UpdateFields :
                        ~Present(hist.update, f) =>
                            FieldOf(store_data.devices[i], f) = FieldOf(hist.pre.devices[i], f)
                  /\ store_data.devices[i].tilt = hist.pre.devices[i].tilt
                  /\ store_data.devices[i].id = hist.pre.devices[i].id
                  /\ store_data.devices[i].name = hist.pre.devices[i].name
                  /\ store_data.devices[i].domain = hist.pre.devices[i].domain
                  /\ store_data.devices[i].capabilities = hist.pre.devices[i].capabilities

\* An update with only the position present has been applied to a device of
\* the store and has changed that position.
C4_Witness ==
    /\ hist.n = 1
    /\ hist.update.has_pos
    /\ \A f \in UpdateFields \ {"position"} : ~Present(hist.update, f)
    /\ \E i \in 1..Len(hist.pre.devices) :
          /\ hist.pre.devices[i].id = hist.update.device_id
          /\ store_data.devices[i].position # hist.pre.devices[i].position
          /\ store_data.devices[i].level = 75


\* The devices of the store the update is addressed to
Addressed(data, update) ==
    {i \in 1..Len(data.devices) : data.devices[i].id = update.device_id}

\* Device after differs from device before in no field that the update does
\* not carry.
OnlyPresentFields(before, after, update) ==
    /\ \A f \in UpdateFields :
          ~Present(update, f) => FieldOf(after, f) = FieldOf(before, f)
    /\ after.tilt = before.tilt
    /\ after.id = before.id
    /\ after.name = before.name
    /\ after.room_id = before.room_id
    /\ after.domain = before.domain
    /\ after.capabilities = before.capabilities

\* C11: applying an update whose device id matches no device of the store
\* leaves the whole store as it was; applying one whose id matches changes
\* one device with that id and only in the fields the update carries, and
\* leaves every other device, the room, the scene list and the active scene
\* id as they were.
C11_UnknownDeviceNoOp ==
    hist.n = 1 =>
        IF Addressed(hist.pre, hist.update) = {}
        THEN store_data = hist.pre
        ELSE /\ store_data.room = hist.pre.room
             /\ store_data.scenes = hist.pre.scenes
             /\ store_data.active_scene_id = hist.pre.active_scene_id
             /\ Len(store_data.devices) = Len(hist.pre.devices)
             /\ \E i \in Addressed(hist.pre, hist.update) :
                   /\ OnlyPresentFields(hist.pre.devices[i], store_data.devices[i],
                                        hist.update)
                   /\ \A j \in 1..Len(hist.pre.devices) :
                         j # i => store_data.devices[j] = hist.pre.devices[j]

\* An update that carries all six fields has been applied to a store of two
\* devices, neither of which has its id.
C11_Witness ==
    /\ hist.n = 1
    /\ Len(hist.pre.devices) = 2
    /\ Addressed(hist.pre, hist.update) = {}
    /\ \A f \in UpdateFields : Present(hist.update, f)

\* C12: applying an update a second time in a row leaves the store, and so
\* every device, as the first application left it.
C12_Idempotent ==
    hist.n >= 2 => store_data = hist.once

\* An update carrying an out-of-range level has been applied twice to a
\* device it changed.
C12_Witness ==
    /\ hist.n = 2
    /\ hist.update.has_level
    /\ hist.update.level = 300
    /\ Addressed(hist.pre, hist.update) # {}
    /\ hist.once # hist.pre

----------------------------------------------------------------------------
(* Spec: the pipeline.  The rings have StateSlots and SceneSlots slots in   *)
(* place of the 64 and 16 of the source (SpecRing covers those), so that    *)
(* a handful of messages wraps them.  Each mutex-guarded section is one     *)
(* step; the statements of a thread between two of its critical sections   *)
(* touch only data of that thread and belong to the step.                   *)

StateSlots == 3
SceneSlots == 3
MaxMsgs == 3       \* on_message calls in a run

r3 == <<"r", "3">>
DeviceTopic(id) == DEVICE_PREFIX \o id \o STATE_SUFFIX
SceneTopic(id) == SCENE_PREFIX \o id \o ACTIVATED_SUFFIX

\* What the environment supplies at boot
Configs ==
    {[panel_token |-> <<>>, room_id |-> r1],
     [panel_token |-> <<"t">>, room_id |-> r1],
     [panel_token |-> <<"t">>, room_id |-> r3]}
RoomDirs == {<<>>, <<Room(r1, "Lounge", 2, 2, 1), Room(r2, "Hall", 0, 0, 2)>>}
DeviceLoads == {<<DevA(d1), DevB(d2)>>}
SceneLoads ==
    {[scenes |-> <<Scene(s1, "Day", r1, "#FFFFFF", "day", 1),
                   Scene(s2, "Night", r1, "#000000", "night", 2)>>,
      active |-> s1]}

\* The broker messages of the model
Messages == <<
    [topic |-> DeviceTopic(d1), payload |-> Payload(JObj([level |-> JNum(50)]))],
    [topic |-> DeviceTopic(d1),
     payload |-> Payload(JObj([on |-> JBool(TRUE), level |-> JNum(300)]))],
    [topic |-> DeviceTopic(d2),
     payload |-> Payload(JObj([state |->
                    JObj([temperature |-> JNum(215), setpoint |-> JNum(210)])]))],
    [topic |-> DeviceTopic(d3), payload |-> Payload(JObj([position |-> JNum(30)]))],
    [topic |-> DeviceTopic(d1), payload |-> Payload(JNULL)],
    [topic |-> SceneTopic(s2), payload |-> Payload(JObj([room_id |-> JStr(r1)]))],
    [topic |-> SceneTopic(s1), payload |-> Payload(JNULL)],
    [topic |-> SceneTopic(s1), payload |-> EMPTY_PAYLOAD],
    [topic |-> DEVICE_PREFIX \o d1, payload |-> Payload(JObj([level |-> JNum(50)]))] >>

NoDrain == [active |-> FALSE]
NoCmd == [name |-> "", issued |-> FALSE, sent |-> FALSE, net |-> FALSE, ret |-> FALSE]

Init ==
    /\ state_queue = [i \in 0..(StateSlots - 1) |-> ZeroUpdate]
    /\ state_head = 0
    /\ state_tail = 0
    /\ scene_queue = [i \in 0..(SceneSlots - 1) |-> ZeroSceneEvent]
    /\ scene_head = 0
    /\ scene_tail = 0
    /\ store_data = ZeroRoomData
    /\ store_live = FALSE
    /\ AppNotStarted
    /\ hist = [msgs |-> 0, cmd |-> NoCmd, drain |-> NoDrain, drop |-> [any |-> FALSE]]

(* ---- LVGL thread ---- *)

\* app.c:116-126: panel_config_load and try_live_boot, with the environment's
\* answers drawn from the given sets.  A successful mqtt_client_init inside
\* try_live_boot starts the network thread.
app_init_from(configs, roomdirs, deviceloads, sceneloads) ==
    /\ ui_pc = "app_init"
    /\ \E cfg \in configs, rooms \in roomdirs, devices \in deviceloads,
          scenes \in sceneloads, mqtt_ok \in BOOLEAN :
          LET valid == panel_config_is_valid(cfg)
              boot == try_live_boot(cfg, rooms, devices, scenes, mqtt_ok, room_data)
          IN  /\ live' = (valid /\ boot.ret)
              /\ room_data' = IF valid THEN boot.data ELSE room_data
              /\ rest_initialised' = (valid /\ boot.rest_initialised)
              /\ mosq' = (valid /\ boot.mosq)
    /\ ui_pc' = "app_init_store"
    /\ UNCHANGED <<qvars, svars, connected, networking_active, current_view, scene_ctx, count, hist,
                   lvars>>

app_init == app_init_from(Configs, RoomDirs, DeviceLoads, SceneLoads)

\* app.c:126-142: the store is filled from the live load or from the demo data
app_init_store ==
    /\ ui_pc = "app_init_store"
    /\ IF live
       THEN /\ store_data' = data_store_init(room_data)
            /\ store_live' = TRUE
            /\ networking_active' = TRUE
       ELSE /\ store_data' = data_store_init(demo_data_create)
            /\ store_live' = FALSE
            /\ UNCHANGED networking_active
    /\ \E rv \in BOOLEAN :             \* app.c:139, NULL when lv_malloc fails
          LET created == scr_room_view_create("room_data",
                             IF live THEN room_data ELSE demo_data_create, rv, scene_ctx)
          IN  /\ current_view' = created.view
              /\ scene_ctx' = created.scene_ctx
    /\ room_data' = ZeroRoomData      \* the local dies with app_init
    /\ live' = FALSE
    /\ ui_pc' = "main_loop"
    /\ UNCHANGED <<qvars, nvars, count, hist, lvars>>

\* app.c:27-44, the store's part of it
on_state_update(data, update) == data_store_apply_update(data, update)

\* Faulty variant: an update for an unknown device refreshes the first device
on_state_update_refresh_on_miss(view, data, update) ==
    LET i == FindDevice(data, update.device_id)
        j == IF i = 0 THEN 1 ELSE i
    IN  IF view /\ Len(data.devices) > 0
        THEN <<[fn |-> "scr_room_view_update_device",
                device_id |-> update.device_id, dev |-> data.devices[j]]>>
        ELSE <<>>

\* app.c:33-43: the calls on_state_update makes to the room view, data being
\* the store after data_store_apply_update
on_state_update_refresh(view, data, update) ==
    LET i == FindDevice(data, update.device_id)
    IN  IF view /\ i # 0
        THEN <<[fn |-> "scr_room_view_update_device",
                device_id |-> update.device_id, dev |-> data.devices[i]]>>
        ELSE <<>>

\* app.c:46-49, the store's part of on_scene_event
on_scene_event(data, event) == data_store_set_active_scene(data, event.scene_id)

\* Faulty variant: the view is given the event's room id for its scene id
on_scene_event_refresh_room_id(view, data, event) ==
    IF view
    THEN <<[fn |-> "scr_room_view_update_scene", scene_id |-> event.room_id,
            scenes |-> data.scenes, scene_count |-> Len(data.scenes)]>>
    ELSE <<>>

\* app.c:51-55: the calls on_scene_event makes to the room view, data being
\* the store it reads the scene list from
on_scene_event_refresh(view, data, event) ==
    IF view
    THEN <<[fn |-> "scr_room_view_update_scene", scene_id |-> event.scene_id,
            scenes |-> data.scenes, scene_count |-> Len(data.scenes)]>>
    ELSE <<>>

\* A tick that never enters the drain
app_tick_idle ==
    /\ ui_pc = "main_loop"
    /\ hist' = [hist EXCEPT !.cmd = NoCmd]
    /\ UNCHANGED <<qvars, svars, nvars, uvars, lvars>>

\* app.c:145-150 and mqtt_client.c:262: a tick enters the drain when
\* networking is active and is a no-op otherwise.  hist.drain is the drain in
\* progress: the store and the pending entries at its start, the entries it
\* has passed to the callbacks, and for each of them the calls the callback
\* made to the room view.
app_tick ==
    /\ ui_pc = "main_loop"
    /\ IF networking_active
       THEN /\ ui_pc' = "drain_state"
            /\ count' = 0
            /\ hist' = [hist EXCEPT !.cmd = NoCmd, !.drain =
                          [active |-> TRUE, store0 |-> store_data,
                           state0 |-> Pending(StateQ, StateSlots),
                           scene0 |-> Pending(SceneQ, SceneSlots),
                           states |-> <<>>, scenes |-> <<>>,
                           state_calls |-> <<>>, scene_calls |-> <<>>,
                           enq |-> FALSE, ret |-> -1]]
       ELSE /\ hist' = [hist EXCEPT !.cmd = NoCmd]
            /\ UNCHANGED <<ui_pc, count>>
    /\ UNCHANGED <<qvars, svars, nvars, networking_active,
                   current_view, scene_ctx, live, room_data, lvars>>

\* A state loop written with "if" for "while": it leaves after one update
drain_state_loop_once ==
    /\ ui_pc = "drain_state"
    /\ LET r == dequeue_state(StateQ, StateSlots)
       IN  /\ state_queue' = r.q.buf
           /\ state_head' = r.q.head
           /\ state_tail' = r.q.tail
           /\ ui_pc' = "drain_scene"
           /\ IF r.ok
              THEN /\ store_data' = on_state_update(store_data, r.out)
                   /\ count' = count + 1
                   /\ hist' = [hist EXCEPT
                                 !.drain.states = Append(@, r.out),
                                 !.drain.state_calls =
                                     Append(@, on_state_update_refresh(
                                                   current_view, store_data', r.out))]
              ELSE UNCHANGED <<store_data, count, hist>>
    /\ UNCHANGED <<scene_queue, scene_head, scene_tail, store_live, nvars,
                   networking_active, current_view, scene_ctx, live, room_data, lvars>>

\* mqtt_client.c:264-267: one turn of the state loop
drain_state_loop ==
    /\ ui_pc = "drain_state"
    /\ LET r == dequeue_state(StateQ, StateSlots)
       IN  /\ state_queue' = r.q.buf
           /\ state_head' = r.q.head
           /\ state_tail' = r.q.tail
           /\ IF r.ok
              THEN /\ store_data' = on_state_update(store_data, r.out)
                   /\ count' = count + 1
                   /\ hist' = [hist EXCEPT
                                 !.drain.states = Append(@, r.out),
                                 !.drain.state_calls =
                                     Append(@, on_state_update_refresh(
                                                   current_view, store_data', r.out))]
                   /\ UNCHANGED ui_pc
              ELSE /\ ui_pc' = "drain_scene"
                   /\ UNCHANGED <<store_data, count, hist>>
    /\ UNCHANGED <<scene_queue, scene_head, scene_tail, store_live, nvars,
                   networking_active, current_view, scene_ctx, live, room_data, lvars>>

\* A scene loop that does not count the events it applies
drain_scene_loop_uncounted ==
    /\ ui_pc = "drain_scene"
    /\ LET r == dequeue_scene(SceneQ, SceneSlots)
       IN  /\ scene_queue' = r.q.buf
           /\ scene_head' = r.q.head
           /\ scene_tail' = r.q.tail
           /\ IF r.ok
              THEN /\ store_data' = on_scene_event(store_data, r.out)
                   /\ hist' = [hist EXCEPT
                                 !.drain.scenes = Append(@, r.out),
                                 !.drain.scene_calls =
                                     Append(@, on_scene_event_refresh(
                                                   current_view, store_data', r.out))]
                   /\ UNCHANGED <<ui_pc, count>>
              ELSE /\ ui_pc' = "drain_return"
                   /\ hist' = [hist EXCEPT !.drain.ret = count]
                   /\ UNCHANGED <<store_data, count>>
    /\ UNCHANGED <<state_queue, state_head, state_tail, store_live, nvars,
                   networking_active, current_view, scene_ctx, live, room_data, lvars>>

\* mqtt_client.c:270-274: one turn of the scene loop, and the return
drain_scene_loop ==
    /\ ui_pc = "drain_scene"
    /\ LET r == dequeue_scene(SceneQ, SceneSlots)
       IN  /\ scene_queue' = r.q.buf
           /\ scene_head' = r.q.head
           /\ scene_tail' = r.q.tail
           /\ IF r.ok
              THEN /\ store_data' = on_scene_event(store_data, r.out)
                   /\ count' = count + 1
                   /\ hist' = [hist EXCEPT
                                 !.drain.scenes = Append(@, r.out),
                                 !.drain.scene_calls =
                                     Append(@, on_scene_event_refresh(
                                                   current_view, store_data', r.out))]
                   /\ UNCHANGED ui_pc
              ELSE /\ ui_pc' = "drain_return"
                   /\ hist' = [hist EXCEPT !.drain.ret = count]
                   /\ UNCHANGED <<store_data, count>>
    /\ UNCHANGED <<state_queue, state_head, state_tail, store_live, nvars,
                   networking_active, current_view, scene_ctx, live, room_data, lvars>>

\* app.c:148-150: app_tick returns to the main loop (main.c:28-34)
app_tick_return ==
    /\ ui_pc = "drain_return"
    /\ ui_pc' = "main_loop"
    /\ count' = 0
    /\ hist' = [hist EXCEPT !.drain = NoDrain]
    /\ UNCHANGED <<qvars, svars, nvars, networking_active,
                   current_view, scene_ctx, live, room_data, lvars>>

\* rest_client.c:87-123, do_post: net_ok is what the network makes of the request
do_post(net_ok) == IF ~rest_initialised THEN FALSE ELSE net_ok

\* A command without the data_store_is_live test
Command_unguarded(name, net_ok) ==
    /\ ui_pc = "main_loop"
    /\ hist' = [hist EXCEPT
                  !.cmd = [name |-> name, issued |-> TRUE, sent |-> rest_initialised,
                           net |-> rest_initialised /\ net_ok, ret |-> do_post(net_ok)]]
    /\ UNCHANGED <<qvars, svars, nvars, uvars, lvars>>

\* command.c:11-50: each command returns false at once when the store is not
\* live and otherwise the result of its one POST.  hist.cmd is the command
\* since the last tick: its name, whether it called rest_send_command or
\* rest_activate_scene (issued), whether do_post sent the request
\* (rest_client.c:89), what the network made of it, and what the command
\* returned.
Command(name, net_ok) ==
    /\ ui_pc = "main_loop"
    /\ hist' = [hist EXCEPT
                  !.cmd = IF ~store_live
                          THEN [name |-> name, issued |-> FALSE, sent |-> FALSE,
                                net |-> FALSE, ret |-> FALSE]
                          ELSE [name |-> name, issued |-> TRUE, sent |-> rest_initialised,
                                net |-> rest_initialised /\ net_ok,
                                ret |-> do_post(net_ok)]]
    /\ UNCHANGED <<qvars, svars, nvars, uvars, lvars>>

\* A set-level command that writes the level it asked for into the store
\* as soon as its POST succeeds
cmd_set_level_optimistic ==
    \E net_ok \in BOOLEAN :
        /\ ui_pc = "main_loop"
        /\ hist' = [hist EXCEPT
                      !.cmd = IF ~store_live
                              THEN [name |-> "set_level", issued |-> FALSE,
                                    sent |-> FALSE, net |-> FALSE, ret |-> FALSE]
                              ELSE [name |-> "set_level", issued |-> TRUE,
                                    sent |-> rest_initialised,
                                    net |-> rest_initialised /\ net_ok,
                                    ret |-> do_post(net_ok)]]
        /\ store_data' = IF store_live /\ do_post(net_ok) /\ store_data.devices # <<>>
                         THEN [store_data EXCEPT !.devices[1].level = 75]
                         ELSE store_data
        /\ UNCHANGED <<qvars, store_live, nvars, uvars, lvars>>

cmd_toggle == \E net_ok \in BOOLEAN : Command("toggle", net_ok)
cmd_set_level == \E net_ok \in BOOLEAN : Command("set_level", net_ok)
cmd_set_position == \E net_ok \in BOOLEAN : Command("set_position", net_ok)
cmd_set_setpoint == \E net_ok \in BOOLEAN : Command("set_setpoint", net_ok)
cmd_activate_scene == \E net_ok \in BOOLEAN : Command("activate_scene", net_ok)

(* ---- network thread (runs while mosq holds a started client) ---- *)

\* mqtt_client.c:129-140
on_connect ==
    /\ mosq
    /\ \E rc \in {0, 5} :
          connected' = IF rc = 0 THEN TRUE ELSE connected
    /\ UNCHANGED <<qvars, svars, mosq, rest_initialised, uvars, hist, lvars>>

\* A disconnect that also takes the store out of live mode
on_disconnect_fallback ==
    /\ mosq
    /\ connected' = FALSE
    /\ store_live' = FALSE
    /\ UNCHANGED <<qvars, store_data, mosq, rest_initialised, uvars, hist, lvars>>

\* mqtt_client.c:142-147
on_disconnect ==
    /\ mosq
    /\ connected' = FALSE
    /\ UNCHANGED <<qvars, svars, mosq, rest_initialised, uvars, hist, lvars>>

\* hist.drop is what the last on_message dropped from the state ring: q0 is
\* the ring before its enqueue and q1 after it.
NoDrop == [any |-> FALSE]
Dropped(q0, q1) ==
    IF q1.tail # q0.tail THEN [any |-> TRUE, entry |-> q0.buf[q0.tail]] ELSE NoDrop

NoteMsg(enqueued, drop) ==
    LET h == [hist EXCEPT !.msgs = @ + 1,
                          !.drop = drop,
                          !.drain = IF enqueued /\ hist.drain.active
                                    THEN [@ EXCEPT !.enq = TRUE] ELSE @]
    IN  hist' = IF "early" \in DOMAIN hist
                THEN [h EXCEPT !.early = @ \/ (enqueued /\ ui_pc = "app_init_store")]
                ELSE h

\* mqtt_client.c:149-206: on_message called with msg
on_message_deliver(msg) ==
    LET d == Decode(msg)
    IN  CASE d.to = "state" ->
               LET q == enqueue_state(StateQ, d.entry, StateSlots)
               IN  /\ state_queue' = q.buf
                   /\ state_head' = q.head
                   /\ state_tail' = q.tail
                   /\ NoteMsg(TRUE, Dropped(StateQ, q))
                   /\ UNCHANGED <<scene_queue, scene_head, scene_tail>>
          [] d.to = "scene" ->
               LET q == enqueue_scene(SceneQ, d.entry, SceneSlots)
               IN  /\ scene_queue' = q.buf
                   /\ scene_head' = q.head
                   /\ scene_tail' = q.tail
                   /\ NoteMsg(TRUE, NoDrop)
                   /\ UNCHANGED <<state_queue, state_head, state_tail>>
          [] OTHER ->
               /\ NoteMsg(FALSE, NoDrop)
               /\ UNCHANGED qvars

\* mqtt_client.c:149-206.  The broker delivers a message only on the
\* subscriptions on_connect made, that is while connected.
on_message ==
    /\ mosq
    /\ connected
    /\ hist.msgs < MaxMsgs
    /\ \E k \in 1..Len(Messages) : on_message_deliver(Messages[k])
    /\ UNCHANGED <<svars, nvars, uvars, lvars>>

Next ==
    \/ app_init
    \/ app_init_store
    \/ app_tick
    \/ drain_state_loop
    \/ drain_scene_loop
    \/ app_tick_return
    \/ cmd_toggle
    \/ cmd_set_level
    \/ cmd_set_position
    \/ cmd_set_setpoint
    \/ cmd_activate_scene
    \/ on_connect
    \/ on_disconnect
    \/ on_message

Spec == Init /\ [][Next]_vars

----------------------------------------------------------------------------
(* Properties of the pipeline (Spec) *)

\* The value an update carries for a field
Carried(update, f) ==
    CASE f = "on" -> update.on
      [] f = "level" -> update.level
      [] f = "position" -> update.position
      [] f = "temperature" -> update.temperature
      [] f = "setpoint" -> update.setpoint
      [] f = "health" -> update.health

\* The drained updates addressed to a device that carry a field, in drain order
Carrying(updates, id, f) ==
    LET Hit(u) == u.device_id = id /\ Present(u, f)
    IN  SelectSeq(updates, Hit)

\* C5: when a drain has completed, each state field of each device of the
\* store equals the value carried by the last drained update for that device
\* in which the field is present, and its pre-drain value when no drained
\* update for the device carries the field.
C5_LastWriteWins ==
    ui_pc = "drain_return" =>
        \A i \in 1..Len(store_data.devices) : \A f \in UpdateFields :
            LET us == Carrying(hist.drain.states, store_data.devices[i].id, f)
            IN  FieldOf(store_data.devices[i], f) =
                    IF us = <<>> THEN FieldOf(hist.drain.store0.devices[i], f)
                    ELSE Carried(us[Len(us)], f)

StateQ1 == Queue(state_queue', state_head', state_tail')

\* An enqueue on the full state ring drops the oldest unread update: the
\* step moves both the head and the tail of the state ring.
DropsOldest == state_head' # state_head /\ state_tail' # state_tail

\* C6 as stated: whenever an enqueue on the full state ring drops the oldest
\* unread update, a newer update for the same device is still pending.
C6_AsStated ==
    [][DropsOldest =>
          \E i \in 1..Len(Pending(StateQ1, StateSlots)) :
              Pending(StateQ1, StateSlots)[i].device_id
                  = state_queue[state_tail].device_id]_vars

\* C6, amended: whenever an enqueue on the full state ring drops the oldest
\* unread update, the updates pending afterwards are exactly the SIZE - 1
\* updates enqueued after the dropped one, in their order (the ones that
\* were pending behind it, then the new one); whether one of them is for
\* the dropped update's device is up to what was enqueued.
C6_DropKeepsNewer ==
    [][DropsOldest =>
          /\ Pending(StateQ1, StateSlots)
                = Append(Tail(Pending(StateQ, StateSlots)), state_queue'[state_head])
          /\ Len(Pending(StateQ1, StateSlots)) = StateSlots - 1]_vars

\* An enqueue has just dropped an update and no pending update is for the
\* dropped update's device.
C6_Witness ==
    /\ hist.drop.any
    /\ Len(Pending(StateQ, StateSlots)) = StateSlots - 1
    /\ \A i \in 1..Len(Pending(StateQ, StateSlots)) :
          Pending(StateQ, StateSlots)[i].device_id # hist.drop.entry.device_id

\* C7: when a drain returns and nothing was enqueued during it, both rings
\* are empty and the entries passed to the callbacks are exactly the entries
\* that were pending when it started, each once and in order.
C7_DrainEmpties ==
    (ui_pc = "drain_return" /\ ~hist.drain.enq) =>
        /\ state_head = state_tail
        /\ scene_head = scene_tail
        /\ hist.drain.states = hist.drain.state0
        /\ hist.drain.scenes = hist.drain.scene0

\* A drain that found two state updates and a scene event has returned.
C7_Witness ==
    /\ ui_pc = "drain_return"
    /\ ~hist.drain.enq
    /\ Len(hist.drain.state0) = 2
    /\ Len(hist.drain.scene0) = 1
    /\ hist.drain.ret = 3

Level50(id) == [ZeroUpdate EXCEPT !.device_id = id, !.has_level = TRUE, !.level = 50]

\* The drain has passed exactly {device d1, level 50} and one event for
\* scene s2 to the callbacks, and d1 is a device of the store.
C8_Scenario ==
    /\ ui_pc = "drain_return"
    /\ hist.drain.states = <<Level50(d1)>>
    /\ Len(hist.drain.scenes) = 1
    /\ hist.drain.scenes[1].scene_id = s2
    /\ FindDevice(hist.drain.store0, d1) # 0

\* C8: in that scenario d1's level is 50, every other field of d1 and every
\* other device is as before the drain, the active scene is s2, and the
\* drain returns 2.
C8_EndToEnd ==
    C8_Scenario =>
        /\ store_data =
              [hist.drain.store0 EXCEPT
                  !.devices[FindDevice(hist.drain.store0, d1)].level = 50,
                  !.active_scene_id = s2]
        /\ hist.drain.ret = 2

C8_Witness ==
    /\ C8_Scenario
    /\ hist.drain.store0.devices[FindDevice(hist.drain.store0, d1)].level # 50
    /\ hist.drain.store0.active_scene_id # s2

\* C9: the value a drain returns is the number of state updates it passed
\* to data_store_apply_update plus the number of scene events it passed to
\* data_store_set_active_scene; it is never negative (no error value).
C9_DrainCount ==
    ui_pc = "drain_return" =>
        /\ hist.drain.ret = Len(hist.drain.states) + Len(hist.drain.scenes)
        /\ hist.drain.ret >= 0

\* A drain that applied an update for a device the store does not have, and
\* a scene event, has returned.
C9_Witness ==
    /\ ui_pc = "drain_return"
    /\ \E i \in 1..Len(hist.drain.states) :
          FindDevice(store_data, hist.drain.states[i].device_id) = 0
    /\ Len(hist.drain.scenes) >= 1

\* C10: the Room Store changes only in app_init's data_store_init and in the
\* drain callbacks; no broker callback and no command changes it.
C10_SingleWriter ==
    [][(store_data' # store_data) =>
          /\ app_init_store \/ drain_state_loop \/ drain_scene_loop
          /\ ~(on_connect \/ on_disconnect \/ on_message)
          /\ ~(cmd_toggle \/ cmd_set_level \/ cmd_set_position
                  \/ cmd_set_setpoint \/ cmd_activate_scene)]_vars

\* A command has failed on a live store that the drain has already written.
C10_Witness ==
    /\ hist.cmd.issued
    /\ ~hist.cmd.ret
    /\ hist.msgs >= 1
    /\ store_live
    /\ store_data.devices[1].level = 50

----------------------------------------------------------------------------
(* SpecLock: enqueue and dequeue statement by statement.  The network thread
   runs enqueue_state / enqueue_scene and the LVGL thread runs the drain's
   dequeue_state / dequeue_scene loops; a step is one statement, and a
   struct copy is two steps (the id, then the rest of the entry), so that an
   interleaving inside a copy can be seen.  Entries are numbered. *)

MaxLockEnq == 5

ZeroEntry == [id |-> 0, val |-> 0]

\* pthread_mutex_lock returns once the mutex is free
pthread_mutex_lock_absent(m) == TRUE

pthread_mutex_lock(m) == m = "free"

NoRet == [empty |-> FALSE]
NoSnap == [head |-> 0, tail |-> 0]

InitLock ==
    /\ state_queue = [i \in 0..(StateSlots - 1) |-> ZeroEntry]
    /\ state_head = 0
    /\ state_tail = 0
    /\ scene_queue = [i \in 0..(SceneSlots - 1) |-> ZeroEntry]
    /\ scene_head = 0
    /\ scene_tail = 0
    /\ store_data = ZeroRoomData
    /\ store_live = TRUE
    /\ mosq = TRUE
    /\ connected = TRUE
    /\ rest_initialised = TRUE
    /\ networking_active = TRUE
    /\ current_view = TRUE
    /\ scene_ctx = NoSceneCtx
    /\ ui_pc = "main_loop"
    /\ live = TRUE
    /\ room_data = ZeroRoomData
    /\ count = 0
    /\ state_mutex = "free"
    /\ scene_mutex = "free"
    /\ worker_pc = "idle"
    /\ worker_arg = ZeroEntry
    /\ out = ZeroEntry
    /\ hist = [next |-> 1,
               enq |-> [q \in {"state", "scene"} |-> <<>>],
               deq |-> [q \in {"state", "scene"} |-> <<>>],
               snap |-> NoSnap, ret |-> NoRet]

\* mqtt_client.c:259-262: the drain is entered
drain_enter ==
    /\ ui_pc = "main_loop"
    /\ ui_pc' = "dequeue_state"
    /\ count' = 0
    /\ hist' = [hist EXCEPT !.ret = NoRet]
    /\ UNCHANGED <<qvars, svars, nvars, networking_active,
                   current_view, scene_ctx, live, room_data, lvars>>

(* ---- enqueue_state, mqtt_client.c:39-48 (network thread) ---- *)

\* mqtt_client.c:187: on_message calls enqueue_state with the next entry
on_message_enqueue_state ==
    /\ worker_pc = "idle"
    /\ hist.next <= MaxLockEnq
    /\ worker_arg' = [id |-> hist.next, val |-> hist.next]
    /\ worker_pc' = "enqueue_state"
    /\ hist' = [hist EXCEPT !.next = @ + 1,
                            !.enq["state"] = Append(@, [id |-> hist.next, val |-> hist.next])]
    /\ UNCHANGED <<qvars, svars, nvars, uvars, state_mutex, scene_mutex, out>>

\* line 41
enqueue_state_lock ==
    /\ worker_pc = "enqueue_state"
    /\ pthread_mutex_lock(state_mutex)
    /\ state_mutex' = "worker"
    /\ worker_pc' = "state_slot_id"
    /\ UNCHANGED <<qvars, svars, nvars, uvars, scene_mutex, worker_arg, out, hist>>

\* line 42, first part of the copy
enqueue_state_slot_id ==
    /\ worker_pc = "state_slot_id"
    /\ state_queue' = [state_queue EXCEPT ![state_head].id = worker_arg.id]
    /\ worker_pc' = "state_slot_val"
    /\ UNCHANGED <<state_head, state_tail, scene_queue, scene_head, scene_tail, svars, nvars, uvars,
                   state_mutex, scene_mutex, worker_arg, out, hist>>

\* line 42, rest of the copy
enqueue_state_slot_val ==
    /\ worker_pc = "state_slot_val"
    /\ state_queue' = [state_queue EXCEPT ![state_head].val = worker_arg.val]
    /\ worker_pc' = "state_head"
    /\ UNCHANGED <<state_head, state_tail, scene_queue, scene_head, scene_tail, svars, nvars, uvars,
                   state_mutex, scene_mutex, worker_arg, out, hist>>

\* line 43
enqueue_state_head ==
    /\ worker_pc = "state_head"
    /\ state_head' = (state_head + 1) % StateSlots
    /\ worker_pc' = "state_tail"
    /\ UNCHANGED <<state_queue, state_tail, scene_queue, scene_head, scene_tail, svars, nvars, uvars,
                   state_mutex, scene_mutex, worker_arg, out, hist>>

\* lines 44-46
enqueue_state_tail ==
    /\ worker_pc = "state_tail"
    /\ state_tail' = IF state_head = state_tail THEN (state_tail + 1) % StateSlots ELSE state_tail
    /\ worker_pc' = "state_unlock"
    /\ UNCHANGED <<state_queue, state_head, scene_queue, scene_head, scene_tail, svars, nvars, uvars,
                   state_mutex, scene_mutex, worker_arg, out, hist>>

\* line 47, and the return to on_message
enqueue_state_unlock ==
    /\ worker_pc = "state_unlock"
    /\ state_mutex' = "free"
    /\ worker_pc' = "idle"
    /\ UNCHANGED <<qvars, svars, nvars, uvars, scene_mutex, worker_arg, out, hist>>

(* ---- dequeue_state, mqtt_client.c:50-61 (LVGL thread, from the drain's loop) ---- *)

\* line 52
dequeue_state_lock ==
    /\ ui_pc = "dequeue_state"
    /\ pthread_mutex_lock(state_mutex)
    /\ state_mutex' = "ui"
    /\ ui_pc' = "state_test"
    /\ hist' = [hist EXCEPT !.snap = [head |-> state_head, tail |-> state_tail]]
    /\ UNCHANGED <<qvars, svars, nvars, networking_active,
                   current_view, scene_ctx, live, room_data, count,
                   scene_mutex, worker_pc, worker_arg, out>>

\* line 53
dequeue_state_test ==
    /\ ui_pc = "state_test"
    /\ ui_pc' = IF state_head = state_tail THEN "state_empty" ELSE "state_out_id"
    /\ UNCHANGED <<qvars, svars, nvars, networking_active,
                   current_view, scene_ctx, live, room_data, count,
                   lvars, hist>>

\* Faulty variant: the early return of dequeue_state forgets the unlock
dequeue_state_empty_keeps_lock ==
    /\ ui_pc = "state_empty"
    /\ ui_pc' = "dequeue_scene"
    /\ hist' = [hist EXCEPT !.snap = NoSnap,
                            !.ret = [empty |-> TRUE, q |-> "state",
                                     head0 |-> hist.snap.head, tail0 |-> hist.snap.tail,
                                     head1 |-> state_head, tail1 |-> state_tail]]
    /\ UNCHANGED <<qvars, svars, nvars, networking_active,
                   current_view, scene_ctx, live, room_data, count,
                   state_mutex, scene_mutex, worker_pc, worker_arg, out>>

\* lines 54-55: unlock and return false, which ends the drain's loop
dequeue_state_empty ==
    /\ ui_pc = "state_empty"
    /\ state_mutex' = "free"
    /\ ui_pc' = "dequeue_scene"
    /\ hist' = [hist EXCEPT !.snap = NoSnap,
                            !.ret = [empty |-> TRUE, q |-> "state",
                                     head0 |-> hist.snap.head, tail0 |-> hist.snap.tail,
                                     head1 |-> state_head, tail1 |-> state_tail]]
    /\ UNCHANGED <<qvars, svars, nvars, networking_active,
                   current_view, scene_ctx, live, room_data, count,
                   scene_mutex, worker_pc, worker_arg, out>>

\* line 57, first part of the copy
dequeue_state_out_id ==
    /\ ui_pc = "state_out_id"
    /\ out' = [out EXCEPT !.id = state_queue[state_tail].id]
    /\ ui_pc' = "state_out_val"
    /\ UNCHANGED <<qvars, svars, nvars, networking_active,
                   current_view, scene_ctx, live, room_data, count,
                   state_mutex, scene_mutex, worker_pc, worker_arg, hist>>

\* line 57, rest of the copy
dequeue_state_out_val ==
    /\ ui_pc = "state_out_val"
    /\ out' = [out EXCEPT !.val = state_queue[state_tail].val]
    /\ ui_pc' = "state_tail"
    /\ UNCHANGED <<qvars, svars, nvars, networking_active,
                   current_view, scene_ctx, live, room_data, count,
                   state_mutex, scene_mutex, worker_pc, worker_arg, hist>>

\* line 58
dequeue_state_tail ==
    /\ ui_pc = "state_tail"
    /\ state_tail' = (state_tail + 1) % StateSlots
    /\ ui_pc' = "state_unlock"
    /\ UNCHANGED <<state_queue, state_head, scene_queue, scene_head, scene_tail, svars, nvars,
                   networking_active, current_view, scene_ctx, live, room_data, count, lvars, hist>>

\* lines 59-60: unlock and return true; the drain counts the entry
\* (mqtt_client.c:264-267) and calls dequeue_state again
dequeue_state_unlock ==
    /\ ui_pc = "state_unlock"
    /\ state_mutex' = "free"
    /\ ui_pc' = "dequeue_state"
    /\ count' = count + 1
    /\ hist' = [hist EXCEPT !.snap = NoSnap, !.deq["state"] = Append(@, out)]
    /\ UNCHANGED <<qvars, svars, nvars, networking_active, current_view, scene_ctx, live, room_data,
                   scene_mutex, worker_pc, worker_arg, out>>

(* ---- enqueue_scene, mqtt_client.c:63-72 (network thread) ---- *)

\* mqtt_client.c:204: on_message calls enqueue_scene with the next entry
on_message_enqueue_scene ==
    /\ worker_pc = "idle"
    /\ hist.next <= MaxLockEnq
    /\ worker_arg' = [id |-> hist.next, val |-> hist.next]
    /\ worker_pc' = "enqueue_scene"
    /\ hist' = [hist EXCEPT !.next = @ + 1,
                            !.enq["scene"] = Append(@, [id |-> hist.next, val |-> hist.next])]
    /\ UNCHANGED <<qvars, svars, nvars, uvars, state_mutex, scene_mutex, out>>

\* line 65
enqueue_scene_lock ==
    /\ worker_pc = "enqueue_scene"
    /\ pthread_mutex_lock(scene_mutex)
    /\ scene_mutex' = "worker"
    /\ worker_pc' = "scene_slot_id"
    /\ UNCHANGED <<qvars, svars, nvars, uvars, state_mutex, worker_arg, out, hist>>

\* line 66, first part of the copy
enqueue_scene_slot_id ==
    /\ worker_pc = "scene_slot_id"
    /\ scene_queue' = [scene_queue EXCEPT ![scene_head].id = worker_arg.id]
    /\ worker_pc' = "scene_slot_val"
    /\ UNCHANGED <<scene_head, scene_tail, state_queue, state_head, state_tail, svars, nvars, uvars,
                   state_mutex, scene_mutex, worker_arg, out, hist>>

\* line 66, rest of the copy
enqueue_scene_slot_val ==
    /\ worker_pc = "scene_slot_val"
    /\ scene_queue' = [scene_queue EXCEPT ![scene_head].val = worker_arg.val]
    /\ worker_pc' = "scene_head"
    /\ UNCHANGED <<scene_head, scene_tail, state_queue, state_head, state_tail, svars, nvars, uvars,
                   state_mutex, scene_mutex, worker_arg, out, hist>>

\* line 67
enqueue_scene_head ==
    /\ worker_pc = "scene_head"
    /\ scene_head' = (scene_head + 1) % SceneSlots
    /\ worker_pc' = "scene_tail"
    /\ UNCHANGED <<scene_queue, scene_tail, state_queue, state_head, state_tail, svars, nvars, uvars,
                   state_mutex, scene_mutex, worker_arg, out, hist>>

\* lines 68-70
enqueue_scene_tail ==
    /\ worker_pc = "scene_tail"
    /\ scene_tail' = IF scene_head = scene_tail THEN (scene_tail + 1) % SceneSlots ELSE scene_tail
    /\ worker_pc' = "scene_unlock"
    /\ UNCHANGED <<scene_queue, scene_head, state_queue, state_head, state_tail, svars, nvars, uvars,
                   state_mutex, scene_mutex, worker_arg, out, hist>>

\* line 71, and the return to on_message
enqueue_scene_unlock ==
    /\ worker_pc = "scene_unlock"
    /\ scene_mutex' = "free"
    /\ worker_pc' = "idle"
    /\ UNCHANGED <<qvars, svars, nvars, uvars, state_mutex, worker_arg, out, hist>>

(* ---- dequeue_scene, mqtt_client.c:74-85 (LVGL thread, from the drain's loop) ---- *)

\* line 76
dequeue_scene_lock ==
    /\ ui_pc = "dequeue_scene"
    /\ pthread_mutex_lock(scene_mutex)
    /\ scene_mutex' = "ui"
    /\ ui_pc' = "scene_test"
    /\ hist' = [hist EXCEPT !.snap = [head |-> scene_head, tail |-> scene_tail]]
    /\ UNCHANGED <<qvars, svars, nvars, networking_active,
                   current_view, scene_ctx, live, room_data, count,
                   state_mutex, worker_pc, worker_arg, out>>

\* line 77
dequeue_scene_test ==
    /\ ui_pc = "scene_test"
    /\ ui_pc' = IF scene_head = scene_tail THEN "scene_empty" ELSE "scene_out_id"
    /\ UNCHANGED <<qvars, svars, nvars, networking_active,
                   current_view, scene_ctx, live, room_data, count,
                   lvars, hist>>

\* lines 78-79: unlock and return false, which ends the drain's loop
dequeue_scene_empty ==
    /\ ui_pc = "scene_empty"
    /\ scene_mutex' = "free"
    /\ ui_pc' = "drain_return"
    /\ hist' = [hist EXCEPT !.snap = NoSnap,
                            !.ret = [empty |-> TRUE, q |-> "scene",
                                     head0 |-> hist.snap.head, tail0 |-> hist.snap.tail,
                                     head1 |-> scene_head, tail1 |-> scene_tail]]
    /\ UNCHANGED <<qvars, svars, nvars, networking_active,
                   current_view, scene_ctx, live, room_data, count,
                   state_mutex, worker_pc, worker_arg, out>>

\* line 81, first part of the copy
dequeue_scene_out_id ==
    /\ ui_pc = "scene_out_id"
    /\ out' = [out EXCEPT !.id = scene_queue[scene_tail].id]
    /\ ui_pc' = "scene_out_val"
    /\ UNCHANGED <<qvars, svars, nvars, networking_active,
                   current_view, scene_ctx, live, room_data, count,
                   state_mutex, scene_mutex, worker_pc, worker_arg, hist>>

\* line 81, rest of the copy
dequeue_scene_out_val ==
    /\ ui_pc = "scene_out_val"
    /\ out' = [out EXCEPT !.val = scene_queue[scene_tail].val]
    /\ ui_pc' = "scene_tail"
    /\ UNCHANGED <<qvars, svars, nvars, networking_active,
                   current_view, scene_ctx, live, room_data, count,
                   state_mutex, scene_mutex, worker_pc, worker_arg, hist>>

\* line 82
dequeue_scene_tail ==
    /\ ui_pc = "scene_tail"
    /\ scene_tail' = (scene_tail + 1) % SceneSlots
    /\ ui_pc' = "scene_unlock"
    /\ UNCHANGED <<scene_queue, scene_head, state_queue, state_head, state_tail, svars, nvars,
                   networking_active, current_view, scene_ctx, live, room_data, count, lvars, hist>>

\* lines 83-84: unlock and return true; the drain counts the entry
\* (mqtt_client.c:270-273) and calls dequeue_scene again
dequeue_scene_unlock ==
    /\ ui_pc = "scene_unlock"
    /\ scene_mutex' = "free"
    /\ ui_pc' = "dequeue_scene"
    /\ count' = count + 1
    /\ hist' = [hist EXCEPT !.snap = NoSnap, !.deq["scene"] = Append(@, out)]
    /\ UNCHANGED <<qvars, svars, nvars, networking_active, current_view, scene_ctx, live, room_data,
                   state_mutex, worker_pc, worker_arg, out>>

\* mqtt_client.c:274 and app.c:148-150: the drain returns and the tick ends
drain_leave ==
    /\ ui_pc = "drain_return"
    /\ ui_pc' = "main_loop"
    /\ UNCHANGED <<qvars, svars, nvars, networking_active,
                   current_view, scene_ctx, live, room_data, count,
                   lvars, hist>>

NextLock ==
    \/ drain_enter
    \/ on_message_enqueue_state
    \/ enqueue_state_lock
    \/ enqueue_state_slot_id
    \/ enqueue_state_slot_val
    \/ enqueue_state_head
    \/ enqueue_state_tail
    \/ enqueue_state_unlock
    \/ dequeue_state_lock
    \/ dequeue_state_test
    \/ dequeue_state_empty
    \/ dequeue_state_out_id
    \/ dequeue_state_out_val
    \/ dequeue_state_tail
    \/ dequeue_state_unlock
    \/ on_message_enqueue_scene
    \/ enqueue_scene_lock
    \/ enqueue_scene_slot_id
    \/ enqueue_scene_slot_val
    \/ enqueue_scene_head
    \/ enqueue_scene_tail
    \/ enqueue_scene_unlock
    \/ dequeue_scene_lock
    \/ dequeue_scene_test
    \/ dequeue_scene_empty
    \/ dequeue_scene_out_id
    \/ dequeue_scene_out_val
    \/ dequeue_scene_tail
    \/ dequeue_scene_unlock
    \/ drain_leave

SpecLock == InitLock /\ [][NextLock]_vars

\* The position of an entry in a sequence of distinct entries
IndexIn(seq, x) == CHOOSE j \in 1..Len(seq) : seq[j] = x

\* C2: under every interleaving of the network thread's enqueues and the
\* LVGL thread's dequeues, for each ring every entry a dequeue has returned
\* equals, in all its fields, one entry that was enqueued; the returned
\* entries are in the order of their enqueues and none is returned twice;
\* and a dequeue that returned "empty" found head = tail and left both as
\* they were when it took the lock.
C2_FifoUnderConcurrency ==
    /\ \A q \in {"state", "scene"} :
          /\ \A i \in 1..Len(hist.deq[q]) :
                \E j \in 1..Len(hist.enq[q]) : hist.deq[q][i] = hist.enq[q][j]
          /\ \A i, j \in 1..Len(hist.deq[q]) :
                i < j => IndexIn(hist.enq[q], hist.deq[q][i])
                            < IndexIn(hist.enq[q], hist.deq[q][j])
    /\ hist.ret.empty =>
          /\ hist.ret.head0 = hist.ret.tail0
          /\ hist.ret.head1 = hist.ret.head0
          /\ hist.ret.tail1 = hist.ret.tail0

\* The drain has returned entries of both rings, one of them after an older
\* entry was dropped, its last dequeue_scene returned "empty", and the
\* network thread is inside an enqueue.
C2_Witness ==
    /\ Len(hist.deq["state"]) >= 2
    /\ Len(hist.deq["scene"]) >= 1
    /\ Len(hist.deq["state"]) < Len(hist.enq["state"]) - 1
    /\ hist.ret.empty
    /\ hist.ret.q = "scene"
    /\ worker_pc = "state_tail"

----------------------------------------------------------------------------
(* Scene events in the drain (Spec) *)

\* A turn of the drain's scene loop passes an event to on_scene_event: the
\* step dequeues (only the tail of the scene ring moves) and the event is the
\* one that was at the tail.
SceneTurn ==
    /\ ui_pc = "drain_scene"
    /\ scene_tail' # scene_tail
    /\ scene_head' = scene_head

\* The drain returns having passed at least one scene event
SceneDrainEnds ==
    ui_pc = "drain_scene" /\ ui_pc' = "drain_return" /\ hist.drain.scenes # <<>>

UpdateSceneCall(event, data) ==
    [fn |-> "scr_room_view_update_scene", scene_id |-> event.scene_id,
     scenes |-> data.scenes, scene_count |-> Len(data.scenes)]

----------------------------------------------------------------------------
(* Locks (SpecLock) *)

\* Where a thread is while it holds a mutex: after the lock, up to the unlock
InEnqueue(K) ==
    {K \o "_slot_id", K \o "_slot_val", K \o "_head", K \o "_tail", K \o "_unlock"}
InDequeue(K) ==
    {K \o "_test", K \o "_empty", K \o "_out_id", K \o "_out_val", K \o "_tail",
     K \o "_unlock"}

\* The steps of each thread
WorkerStep ==
    \/ on_message_enqueue_state \/ enqueue_state_lock \/ enqueue_state_slot_id
    \/ enqueue_state_slot_val \/ enqueue_state_head \/ enqueue_state_tail
    \/ enqueue_state_unlock
    \/ on_message_enqueue_scene \/ enqueue_scene_lock \/ enqueue_scene_slot_id
    \/ enqueue_scene_slot_val \/ enqueue_scene_head \/ enqueue_scene_tail
    \/ enqueue_scene_unlock
UIStep ==
    \/ drain_enter \/ drain_leave
    \/ dequeue_state_lock \/ dequeue_state_test \/ dequeue_state_empty
    \/ dequeue_state_out_id \/ dequeue_state_out_val \/ dequeue_state_tail
    \/ dequeue_state_unlock
    \/ dequeue_scene_lock \/ dequeue_scene_test \/ dequeue_scene_empty
    \/ dequeue_scene_out_id \/ dequeue_scene_out_val \/ dequeue_scene_tail
    \/ dequeue_scene_unlock

\* A thread is blocked when it is at a pthread_mutex_lock whose mutex is held
WorkerBlocked ==
    \/ worker_pc = "enqueue_state" /\ state_mutex # "free"
    \/ worker_pc = "enqueue_scene" /\ scene_mutex # "free"
UIBlocked ==
    \/ ui_pc = "dequeue_state" /\ state_mutex # "free"
    \/ ui_pc = "dequeue_scene" /\ scene_mutex # "free"

\* C14: a thread holds a queue's mutex exactly while it is between the lock
\* and the unlock of an enqueue or dequeue on that queue, so it never holds
\* one mutex while it acquires the other and every path, the early return
\* on an empty queue included, gives the mutex back; and no state is a
\* deadlock: the two threads are never both blocked, and whenever one is
\* blocked at a lock the other can take a step.
C14_NoDeadlock ==
    /\ (state_mutex = "worker") <=> (worker_pc \in InEnqueue("state"))
    /\ (scene_mutex = "worker") <=> (worker_pc \in InEnqueue("scene"))
    /\ (state_mutex = "ui") <=> (ui_pc \in InDequeue("state"))
    /\ (scene_mutex = "ui") <=> (ui_pc \in InDequeue("scene"))
    /\ ~(state_mutex = "worker" /\ scene_mutex = "worker")
    /\ ~(state_mutex = "ui" /\ scene_mutex = "ui")
    /\ ~(WorkerBlocked /\ UIBlocked)
    /\ UIBlocked => ENABLED WorkerStep
    /\ WorkerBlocked => ENABLED UIStep
    /\ (~UIBlocked) => ENABLED UIStep

\* The network thread waits for the state mutex, which the LVGL thread holds
\* on the early-return path of dequeue_state, after the scene mutex has been
\* taken and given back by both threads.
C14_Witness ==
    /\ worker_pc = "enqueue_state"
    /\ ui_pc = "state_empty"
    /\ state_mutex = "ui"
    /\ Len(hist.enq["scene"]) >= 1
    /\ Len(hist.deq["scene"]) >= 1

----------------------------------------------------------------------------
(* SpecBoot: app_init statement by statement *)

MAX_ROOMS == 16
PANEL_TOKEN_SIZE == 128       \* char panel_token[128]
MaxBootRooms == 2             \* rooms in a directory reply

\* getenv: NULL, or the variable's value
Unset == [set |-> FALSE]
Env(v) == [set |-> TRUE, val |-> v]

\* panel_config.c:9-37, the two fields app.c reads: memset, then one snprintf
\* for each variable that is set
panel_config_load(env) ==
    [panel_token |-> IF env.token.set THEN snprintf_s(env.token.val, PANEL_TOKEN_SIZE)
                     ELSE <<>>,
     room_id |-> IF env.room.set THEN snprintf_s(env.room.val, ID_SIZE) ELSE <<>>]

\* A cleanup that leaves the REST client initialised
rest_client_cleanup_absent(initialised) == initialised

\* rest_client.c:136-142, the value of `initialised` after the call
rest_client_cleanup(initialised) == FALSE

\* rest_client.c:196-232.  reply is what do_get made of the request: no JSON
\* (not initialised, transport or HTTP error, parse error), or the rooms of
\* the hierarchy in document order
rest_load_rooms(initialised, reply, max_rooms) ==
    IF ~initialised \/ ~reply.ok THEN <<>> ELSE FirstN(reply.rooms, max_rooms)

\* rest_client.c:234-284
rest_load_devices(initialised, reply, max_devices) ==
    IF ~initialised \/ ~reply.ok THEN <<>> ELSE FirstN(reply.devices, max_devices)

\* rest_client.c:286-338: the scenes written and the active scene id, which
\* is left as the caller had it when there is no JSON
rest_load_scenes(initialised, reply, max_scenes, active_scene_id, active_id_size) ==
    IF ~initialised \/ ~reply.ok
    THEN [scenes |-> <<>>, active |-> active_scene_id]
    ELSE [scenes |-> FirstN(reply.scenes, max_scenes),
          active |-> snprintf_s(reply.active, active_id_size)]

\* mqtt_client.c:210-245: whether the client was started, which is also
\* whether mosq is left non-NULL.  outcome is how far the call got.
mqtt_client_init(outcome) == outcome = "started"

\* What the environment supplies at boot
BootEnvs ==
    {[token |-> t, room |-> r] :
        t \in {Unset, Env(<<>>), Env(<<"t">>)}, r \in {Unset, Env(r1), Env(r3)}}
BootRooms ==
    {Room(r1, "Lounge", 2, 2, 1), Room(r1, "Den", 1, 0, 2), Room(r2, "Hall", 0, 0, 3)}
BootRoomReplies ==
    {[ok |-> FALSE]} \cup
    {[ok |-> TRUE, rooms |-> rooms] :
        rooms \in UNION {[1..n -> BootRooms] : n \in 0..MaxBootRooms}}
BootDeviceReplies ==
    {[ok |-> FALSE], [ok |-> TRUE, devices |-> <<>>],
     [ok |-> TRUE, devices |-> <<DevA(d1), DevB(d2)>>]}
BootSceneReplies ==
    {[ok |-> FALSE], [ok |-> TRUE, scenes |-> <<>>, active |-> <<>>]} \cup
    {[ok |-> TRUE,
      scenes |-> <<Scene(s1, "Day", r1, "#FFFFFF", "day", 1),
                   Scene(s2, "Night", r1, "#000000", "night", 2)>>,
      active |-> a] : a \in {<<>>, s1}}
MqttOutcomes == {"no_client", "connect_failed", "loop_failed", "started"}

\* hist.config is app.c's static config, hist.rooms try_live_boot's local
\* array with room_count = Len(hist.rooms); hist.calls lists the calls made
\* so far, hist.loads what the device and scene loads returned, and
\* hist.terminal the branches of app.c:126-136 taken.
InitBoot ==
    /\ state_queue = [i \in 0..(StateSlots - 1) |-> ZeroUpdate]
    /\ state_head = 0
    /\ state_tail = 0
    /\ scene_queue = [i \in 0..(SceneSlots - 1) |-> ZeroSceneEvent]
    /\ scene_head = 0
    /\ scene_tail = 0
    /\ store_data = ZeroRoomData
    /\ store_live = FALSE
    /\ AppNotStarted
    /\ hist = [config |-> [panel_token |-> <<>>, room_id |-> <<>>],
               rooms |-> <<>>, loads |-> <<>>, calls |-> <<>>, terminal |-> <<>>]

Called(fns) == hist' = [hist EXCEPT !.calls = @ \o fns]

\* app.c:123-126: panel_config_load, and the left operand of &&
app_init_config ==
    /\ ui_pc = "app_init"
    /\ \E env \in BootEnvs :
          LET cfg == panel_config_load(env)
          IN  /\ hist' = [hist EXCEPT !.config = cfg,
                                      !.calls = @ \o <<"panel_config_load">>]
              /\ live' = panel_config_is_valid(cfg)
              /\ ui_pc' = IF panel_config_is_valid(cfg) THEN "try_live_boot" ELSE "store"
    /\ UNCHANGED <<qvars, svars, nvars, networking_active, current_view, scene_ctx, room_data,
                   count, lvars>>

\* app.c:62-64
try_live_boot_enter ==
    /\ ui_pc = "try_live_boot"
    /\ IF ~panel_config_is_valid(hist.config)
       THEN /\ live' = FALSE
            /\ ui_pc' = "store"
            /\ UNCHANGED <<rest_initialised, hist>>
       ELSE /\ rest_initialised' = TRUE
            /\ ui_pc' = "load_rooms"
            /\ Called(<<"rest_client_init">>)
            /\ UNCHANGED live
    /\ UNCHANGED <<qvars, svars, mosq, connected, networking_active, current_view, scene_ctx,
                   room_data, count, lvars>>

\* app.c:67-73
try_live_boot_rooms ==
    /\ ui_pc = "load_rooms"
    /\ \E reply \in BootRoomReplies :
          LET rooms == rest_load_rooms(rest_initialised, reply, MAX_ROOMS)
          IN  IF Len(rooms) = 0
              THEN /\ rest_initialised' = rest_client_cleanup(rest_initialised)
                   /\ hist' = [hist EXCEPT !.rooms = rooms, !.calls =
                                 @ \o <<"rest_load_rooms", "rest_client_cleanup">>]
                   /\ live' = FALSE
                   /\ ui_pc' = "store"
              ELSE /\ hist' = [hist EXCEPT !.rooms = rooms,
                                           !.calls = @ \o <<"rest_load_rooms">>]
                   /\ ui_pc' = "find_room"
                   /\ UNCHANGED <<rest_initialised, live>>
    /\ UNCHANGED <<qvars, svars, mosq, connected, networking_active, current_view, scene_ctx,
                   room_data, count, lvars>>

\* app.c:75-91
try_live_boot_room ==
    /\ ui_pc = "find_room"
    /\ room_data' = [ZeroRoomData EXCEPT
                       !.room = hist.rooms[ResolveRoom(hist.rooms, hist.config.room_id)]]
    /\ ui_pc' = "load_devices"
    /\ UNCHANGED <<qvars, svars, nvars, networking_active, current_view, scene_ctx, live, count,
                   hist, lvars>>

\* A device load whose zero result ends the live boot
try_live_boot_devices_required ==
    /\ ui_pc = "load_devices"
    /\ \E reply \in BootDeviceReplies :
          LET devices == rest_load_devices(rest_initialised, reply, MAX_DEVICES_PER_ROOM)
          IN  /\ room_data' = [room_data EXCEPT !.devices = devices]
              /\ hist' = [hist EXCEPT
                            !.loads = Append(@, [fn |-> "rest_load_devices",
                                                 room_id |-> room_data.room.id,
                                                 ok |-> reply.ok, ret |-> Len(devices)]),
                            !.calls = @ \o <<"rest_load_devices">>]
              /\ live' = (Len(devices) # 0)
              /\ ui_pc' = IF Len(devices) = 0 THEN "store" ELSE "load_scenes"
    /\ UNCHANGED <<qvars, svars, nvars, networking_active, current_view, scene_ctx, count, lvars>>

\* app.c:93-95
try_live_boot_devices ==
    /\ ui_pc = "load_devices"
    /\ \E reply \in BootDeviceReplies :
          LET devices == rest_load_devices(rest_initialised, reply, MAX_DEVICES_PER_ROOM)
          IN  /\ room_data' = [room_data EXCEPT !.devices = devices]
              /\ hist' = [hist EXCEPT
                            !.loads = Append(@, [fn |-> "rest_load_devices",
                                                 room_id |-> room_data.room.id,
                                                 ok |-> reply.ok, ret |-> Len(devices)]),
                            !.calls = @ \o <<"rest_load_devices">>]
    /\ ui_pc' = "load_scenes"
    /\ UNCHANGED <<qvars, svars, nvars, networking_active, current_view, scene_ctx, live, count,
                   lvars>>

\* app.c:97-101
try_live_boot_scenes ==
    /\ ui_pc = "load_scenes"
    /\ \E reply \in BootSceneReplies :
          LET r == rest_load_scenes(rest_initialised, reply, MAX_SCENES_PER_ROOM,
                                    room_data.active_scene_id, ID_SIZE)
          IN  /\ room_data' = [room_data EXCEPT !.scenes = r.scenes,
                                                !.active_scene_id = r.active]
              /\ hist' = [hist EXCEPT
                            !.loads = Append(@, [fn |-> "rest_load_scenes",
                                                 room_id |-> room_data.room.id,
                                                 ok |-> reply.ok, ret |-> Len(r.scenes)]),
                            !.calls = @ \o <<"rest_load_scenes">>]
    /\ ui_pc' = "mqtt_init"
    /\ UNCHANGED <<qvars, svars, nvars, networking_active, current_view, scene_ctx, live, count,
                   lvars>>

\* app.c:106-113: try_live_boot returns true whatever mqtt_client_init returned
try_live_boot_mqtt ==
    /\ ui_pc = "mqtt_init"
    /\ \E outcome \in MqttOutcomes :
          /\ mosq' = mqtt_client_init(outcome)
          /\ hist' = [hist EXCEPT
                        !.loads = Append(@, [fn |-> "mqtt_client_init",
                                             room_id |-> room_data.room.id,
                                             ok |-> mqtt_client_init(outcome), ret |-> 0]),
                        !.calls = @ \o <<"mqtt_client_init">>]
    /\ live' = TRUE
    /\ ui_pc' = "store"
    /\ UNCHANGED <<qvars, svars, connected, rest_initialised, networking_active,
                   current_view, scene_ctx, room_data, count, lvars>>

\* A live branch that forgets data_store_set_live(true)
app_init_live_unmarked ==
    /\ ui_pc = "store"
    /\ live
    /\ store_data' = data_store_init(room_data)
    /\ networking_active' = TRUE
    /\ hist' = [hist EXCEPT !.calls = @ \o <<"data_store_init", "data_store_set_live">>,
                            !.terminal = Append(@, "LIVE")]
    /\ ui_pc' = "create_view"
    /\ UNCHANGED <<qvars, store_live, nvars, current_view, scene_ctx, live, room_data, count, lvars>>

\* app.c:126-129
app_init_live ==
    /\ ui_pc = "store"
    /\ live
    /\ store_data' = data_store_init(room_data)
    /\ store_live' = TRUE
    /\ networking_active' = TRUE
    /\ hist' = [hist EXCEPT !.calls = @ \o <<"data_store_init", "data_store_set_live">>,
                            !.terminal = Append(@, "LIVE")]
    /\ ui_pc' = "create_view"
    /\ UNCHANGED <<qvars, nvars, current_view, scene_ctx, live, room_data, count, lvars>>

\* app.c:130-136
app_init_demo ==
    /\ ui_pc = "store"
    /\ ~live
    /\ room_data' = demo_data_create
    /\ store_data' = data_store_init(demo_data_create)
    /\ store_live' = FALSE
    /\ hist' = [hist EXCEPT !.calls = @ \o <<"demo_data_create", "data_store_init",
                                            "data_store_set_live">>,
                            !.terminal = Append(@, "FALLBACK")]
    /\ ui_pc' = "create_view"
    /\ UNCHANGED <<qvars, nvars, networking_active, current_view, scene_ctx, live, count, lvars>>

\* app.c:138-143: scr_room_view_create returns NULL when its lv_malloc fails
app_init_view ==
    /\ ui_pc = "create_view"
    /\ \E rv \in BOOLEAN :
          LET created == scr_room_view_create("room_data", room_data, rv, scene_ctx)
          IN  /\ current_view' = created.view
              /\ scene_ctx' = created.scene_ctx
    /\ Called(<<"scr_room_view_create">>)
    /\ ui_pc' = "main_loop"
    /\ UNCHANGED <<qvars, svars, nvars, networking_active, live, room_data, count, lvars>>

NextBoot ==
    \/ app_init_config
    \/ try_live_boot_enter
    \/ try_live_boot_rooms
    \/ try_live_boot_room
    \/ try_live_boot_devices
    \/ try_live_boot_scenes
    \/ try_live_boot_mqtt
    \/ app_init_live
    \/ app_init_demo
    \/ app_init_view

\* app_init is straight-line code whose blocking calls are bounded by
\* timeouts (rest_client.c:66-67), so each of its steps is eventually taken.
SpecBoot == InitBoot /\ [][NextBoot]_vars /\ WF_vars(NextBoot)

BootDone == ui_pc = "main_loop"
ConfigLoaded == ui_pc # "app_init"
Made(fn) == \E i \in 1..Len(hist.calls) : hist.calls[i] = fn
Times(fn) == Cardinality({i \in 1..Len(hist.calls) : hist.calls[i] = fn})
ActiveScenes(data) ==
    {i \in 1..Len(data.scenes) : data.scenes[i].id = data.active_scene_id}

\* The configuration app_init loaded lacks the token or the room
ConfigIncomplete == hist.config.panel_token = <<>> \/ hist.config.room_id = <<>>

\* C15: when the loaded configuration lacks the auth token or the target
\* room, boot never initialises the REST client, never requests the room
\* directory and never starts the MQTT client, and it ends in the fallback
\* branch with the store not live and holding a non-empty device list, a
\* non-empty scene list and an active scene id that names exactly one of the
\* listed scenes.
C15_InvalidConfigFallback ==
    (ConfigLoaded /\ ConfigIncomplete) =>
        /\ ~Made("rest_client_init")
        /\ ~Made("rest_load_rooms")
        /\ ~Made("mqtt_client_init")
        /\ ~rest_initialised
        /\ ~mosq
        /\ hist.terminal \in {<<>>, <<"FALLBACK">>}
        /\ BootDone =>
              /\ hist.terminal = <<"FALLBACK">>
              /\ ~store_live
              /\ ~networking_active
              /\ store_data.devices # <<>>
              /\ store_data.scenes # <<>>
              /\ store_data.active_scene_id # <<>>
              /\ Cardinality(ActiveScenes(store_data)) = 1

\* Boot has ended with a token but no room configured.
C15_Witness ==
    /\ BootDone
    /\ hist.config.panel_token # <<>>
    /\ hist.config.room_id = <<>>
    /\ hist.terminal = <<"FALLBACK">>
    /\ Len(store_data.devices) = 5

\* C16: when the configuration is complete and the directory load returned
\* no room, boot makes exactly the calls of the fallback path, in order:
\* the REST client is cleaned up right after the directory load, no device
\* or scene load and no mqtt_client_init is made, and the store ends holding
\* the demo dataset, not live.
C16_EmptyDirectoryFallback ==
    (BootDone /\ ~ConfigIncomplete /\ hist.rooms = <<>>) =>
        /\ hist.calls = <<"panel_config_load", "rest_client_init", "rest_load_rooms",
                          "rest_client_cleanup", "demo_data_create", "data_store_init",
                          "data_store_set_live", "scr_room_view_create">>
        /\ ~rest_initialised
        /\ ~mosq
        /\ hist.terminal = <<"FALLBACK">>
        /\ store_data = demo_data_create
        /\ ~store_live
        /\ ~networking_active

\* Boot has ended after a directory load that returned no room.
C16_Witness ==
    /\ BootDone
    /\ Made("rest_load_rooms")
    /\ Made("rest_client_cleanup")
    /\ hist.rooms = <<>>
    /\ store_data.room.id = ROOM_LIVING

\* The room try_live_boot has resolved, once it has
ResolvedRoom ==
    IF ui_pc \in {"load_devices", "load_scenes", "mqtt_init", "store"}
    THEN room_data.room ELSE store_data.room

\* C17: once the directory load has returned at least one room and the room
\* search has run, the resolved room is the first returned room whose id
\* equals the configured room id, or the first returned room when none
\* does; boot never takes the fallback branch, and ends in the live branch.
C17_RoomResolution ==
    (hist.rooms # <<>> /\ ui_pc # "find_room") =>
        LET hits == {i \in 1..Len(hist.rooms) :
                        hist.rooms[i].id = hist.config.room_id}
        IN  /\ \E i \in 1..Len(hist.rooms) :
                  /\ ResolvedRoom = hist.rooms[i]
                  /\ IF hits = {} THEN i = 1
                     ELSE i \in hits /\ \A j \in hits : i <= j
            /\ hist.terminal \in {<<>>, <<"LIVE">>}
            /\ BootDone => hist.terminal = <<"LIVE">>

\* The directory held rooms r1 and r2, the configured room was r3, and boot
\* ended live on r1.
C17_Witness ==
    /\ BootDone
    /\ hist.config.room_id = r3
    /\ Len(hist.rooms) = 2
    /\ hist.rooms[1].id = r1
    /\ hist.rooms[2].id = r2
    /\ store_data.room = hist.rooms[1]
    /\ hist.terminal = <<"LIVE">>

BootOutcome ==
    /\ Len(hist.terminal) = 1
    /\ Times("data_store_init") = 1
    /\ Times("data_store_set_live") = 1
    /\ store_live <=> (hist.terminal = <<"LIVE">>)
    /\ networking_active <=> (hist.terminal = <<"LIVE">>)

\* C20: whatever the configuration, the three loads and mqtt_client_init
\* give, app_init returns; it takes at most one of the live and fallback
\* branches on the way and exactly one by the time it returns, calls
\* data_store_init exactly once, and leaves data_store_is_live() true
\* exactly when it took the live branch.
C20_BootTerminates ==
    /\ <>BootDone
    /\ [](Len(hist.terminal) <= 1)
    /\ [](BootDone => BootOutcome)

\* Boot has ended live with no MQTT client and no room view.
C20_Witness ==
    /\ BootDone
    /\ hist.terminal = <<"LIVE">>
    /\ ~mosq
    /\ ~current_view
    /\ Len(store_data.devices) = 2

----------------------------------------------------------------------------
(* Boot with a failed mqtt_client_init (Spec) *)

Booted == ui_pc \notin {"app_init", "app_init_store"}

\* In Spec the REST client stays initialised only on the live path, and mosq
\* is NULL after boot only when mqtt_client_init failed or was never called
IngressFailed == Booted /\ rest_initialised /\ ~mosq

\* C18: after a boot whose directory load succeeded and whose
\* mqtt_client_init failed, the store is live and holds a returned room,
\* the loaded devices and the loaded scenes; a command issues its request;
\* both rings stay empty, a drain returns 0, and the store is as it was when
\* the drain began.
C18_IngressFailureDegrades ==
    IngressFailed =>
        /\ store_live
        /\ networking_active
        /\ \E rooms \in RoomDirs, devices \in DeviceLoads, scenes \in SceneLoads :
              /\ \E i \in 1..Len(rooms) : store_data.room = rooms[i]
              /\ store_data.devices = devices
              /\ store_data.scenes = scenes.scenes
              /\ store_data.active_scene_id = scenes.active
        /\ (hist.cmd.name # "") => hist.cmd.issued
        /\ state_head = state_tail
        /\ scene_head = scene_tail
        /\ hist.drain.active => store_data = hist.drain.store0
        /\ (ui_pc = "drain_return") => hist.drain.ret = 0

\* A drain has returned 0 after a live boot without an MQTT client.
C18_Witness ==
    /\ IngressFailed
    /\ ui_pc = "drain_return"
    /\ hist.drain.ret = 0
    /\ store_live
    /\ Len(store_data.devices) = 2

----------------------------------------------------------------------------
(* Boot order and commands (Spec) *)

\* C21: the MQTT client is started, and an event is pending in a ring, only
\* when the store has been filled and marked live.
C21_LiveCommitOrder ==
    (mosq \/ state_head # state_tail \/ scene_head # scene_tail) =>
        /\ store_live
        /\ store_data # ZeroRoomData

CommandNames == {"toggle", "set_level", "set_position", "set_setpoint", "activate_scene"}

----------------------------------------------------------------------------
(* Connection loss (Spec) *)

\* mqtt_client.c:277-280
mqtt_client_is_connected == connected

\* C29: every disconnect callback leaves the connected flag false and
\* changes neither ring (slots and indices) nor the store's contents nor its
\* live flag; mqtt_client_is_connected() turns true only in a connect
\* callback and turns false only in a disconnect callback.  (The program
\* never calls mqtt_client_cleanup: main.c:31-35 loops for ever.)
C29_ConnectionLoss ==
    [][/\ (mqtt_client_is_connected /\ ~mqtt_client_is_connected') =>
              /\ on_disconnect
              /\ UNCHANGED <<qvars, svars>>
       /\ (~mqtt_client_is_connected /\ mqtt_client_is_connected') => on_connect
       /\ on_disconnect => /\ ~mqtt_client_is_connected'
                           /\ UNCHANGED <<qvars, svars>>]_vars

\* The connection was lost with the store live and events waiting in both
\* rings.
C29_Witness ==
    /\ mosq
    /\ ~mqtt_client_is_connected
    /\ store_live
    /\ state_head # state_tail
    /\ scene_head # scene_tail

----------------------------------------------------------------------------
(* SpecIngress: on_message on one message, delivered up to MaxDeliver times  *)
(* to a connected client                                                     *)

MaxIdOver == 1      \* topic ids run up to ID_SIZE + MaxIdOver characters
MaxDeliver == 2     \* deliveries of the message

Rep(c, n) == [i \in 1..n |-> c]
LIGHT_1 == <<"l", "i", "g", "h", "t", "-", "1">>

IngressIds ==
    {<<>>, <<"a">>, LIGHT_1, <<"a", "/", "b">>} \cup
    {Rep("x", n) : n \in (ID_SIZE - 2)..(ID_SIZE + MaxIdOver)}
TopicHeads ==
    {DEVICE_PREFIX, SCENE_PREFIX, <<>>, <<"x">> \o DEVICE_PREFIX,
     SubSeq(DEVICE_PREFIX, 1, Len(DEVICE_PREFIX) - 1),
     SubSeq(SCENE_PREFIX, 1, Len(SCENE_PREFIX) - 1) \o <<"s", "/">>}
TopicTails ==
    {<<>>, STATE_SUFFIX, ACTIVATED_SUFFIX, STATE_SUFFIX \o <<"x">>,
     STATE_SUFFIX \o STATE_SUFFIX, ACTIVATED_SUFFIX \o STATE_SUFFIX,
     <<"/", "s", "t", "a", "t">>, <<"s", "t", "a", "t", "e">>}
IngressTopics ==
    {head \o id \o tail : head \in TopicHeads, id \in IngressIds, tail \in TopicTails}

\* Payload objects: each state field absent, of the type on_message asks
\* for, or of another type
StateKeys == {"on", "level", "position", "temperature", "setpoint"}
RightValue(k) ==
    CASE k = "on" -> JBool(TRUE)
      [] k = "level" -> JNum(300)
      [] k = "position" -> JNum(30)
      [] k = "temperature" -> JNum(215)
      [] k = "setpoint" -> JNum(210)
WrongValue(k) ==
    CASE k = "on" -> JNum(1)
      [] k = "level" -> JStr(<<"5", "0">>)
      [] k = "position" -> JBool(TRUE)
      [] k = "temperature" -> JStr(<<"2", "1">>)
      [] k = "setpoint" -> [type |-> "null"]
FieldMaps ==
    {JObj([k \in {f \in StateKeys : c[f] # "absent"} |->
              IF c[k] = "right" THEN RightValue(k) ELSE WrongValue(k)]) :
        c \in [StateKeys -> {"absent", "right", "wrong"}]}
IngressPayloads ==
    {EMPTY_PAYLOAD, Payload(JNULL), Payload(JNum(5)),
     Payload(JObj([state |-> JNum(5), on |-> JBool(TRUE)])),
     Payload(JObj([state |-> [type |-> "null"], level |-> JNum(7)])),
     Payload(JObj([room_id |-> JStr(r1)])),
     Payload(JObj([room_id |-> JNum(7)])),
     Payload(JObj([room_id |-> JStr(Rep("r", ID_SIZE - 1)), on |-> JBool(TRUE)]))} \cup
    {Payload(m) : m \in FieldMaps} \cup
    {Payload(JObj([state |-> m, level |-> JNum(7)])) : m \in FieldMaps}
FewPayloads ==
    {EMPTY_PAYLOAD, Payload(JNULL), Payload(JObj([level |-> JNum(50)])),
     Payload(JObj([room_id |-> JStr(r1)]))}
FewTopics == {DeviceTopic(LIGHT_1), SceneTopic(s1), DEVICE_PREFIX \o LIGHT_1}
IngressMessages ==
    {[topic |-> t, payload |-> pl] : t \in IngressTopics, pl \in FewPayloads} \cup
    {[topic |-> t, payload |-> pl] : t \in FewTopics, pl \in IngressPayloads}

\* The state after a live boot and a successful connect callback, with the
\* message the broker is about to deliver in hist.msg
InitIngress ==
    /\ state_queue = [i \in 0..(StateSlots - 1) |-> ZeroUpdate]
    /\ state_head = 0
    /\ state_tail = 0
    /\ scene_queue = [i \in 0..(SceneSlots - 1) |-> ZeroSceneEvent]
    /\ scene_head = 0
    /\ scene_tail = 0
    /\ \E rooms \in RoomDirs \ {<<>>}, devices \in DeviceLoads, scenes \in SceneLoads :
          store_data = data_store_init(
              try_live_boot([panel_token |-> <<"t">>, room_id |-> r1], rooms, devices,
                            scenes, TRUE, ZeroRoomData).data)
    /\ store_live = TRUE
    /\ mosq = TRUE
    /\ connected = TRUE
    /\ rest_initialised = TRUE
    /\ networking_active = TRUE
    /\ current_view = TRUE
    /\ scene_ctx = scr_room_view_create("room_data", store_data, TRUE, NoSceneCtx).scene_ctx
    /\ ui_pc = "main_loop"
    /\ live = FALSE
    /\ room_data = ZeroRoomData
    /\ count = 0
    /\ state_mutex = "free"
    /\ scene_mutex = "free"
    /\ worker_pc = "idle"
    /\ worker_arg = 0
    /\ out = 0
    /\ \E msg \in IngressMessages :
          hist = [msgs |-> 0, cmd |-> NoCmd, drain |-> NoDrain, drop |-> NoDrop,
                  msg |-> msg]

\* The broker delivers the message
deliver ==
    /\ mosq
    /\ connected
    /\ hist.msgs < MaxDeliver
    /\ on_message_deliver(hist.msg)
    /\ UNCHANGED <<svars, nvars, uvars, lvars>>

NextIngress == deliver

SpecIngress == InitIngress /\ [][NextIngress]_vars

\* The offsets n at which suffix first occurs in topic after prefix
FirstSuffix(topic, prefix, suffix) ==
    LET At(n) == /\ Len(topic) >= Len(prefix) + n + Len(suffix)
                 /\ SubSeq(topic, Len(prefix) + n + 1, Len(prefix) + n + Len(suffix))
                        = suffix
    IN  {n \in 0..Len(topic) : At(n) /\ \A m \in 0..(n - 1) : ~At(m)}

\* The identifiers a topic carries: the text between the prefix it starts
\* with and the suffix after it, when its length is at least 1 and less
\* than cap
TopicIds(topic, prefix, suffix, cap) ==
    IF Len(topic) < Len(prefix) \/ SubSeq(topic, 1, Len(prefix)) # prefix THEN {}
    ELSE {SubSeq(topic, Len(prefix) + 1, Len(prefix) + n) :
            n \in {k \in FirstSuffix(topic, prefix, suffix) : 1 <= k /\ k < cap}}

DeviceIds == TopicIds(hist.msg.topic, DEVICE_PREFIX, STATE_SUFFIX, ID_SIZE)
SceneIds == TopicIds(hist.msg.topic, SCENE_PREFIX, ACTIVATED_SUFFIX, ID_SIZE)
Delivered == hist.msgs >= 1

\* C23: parse_device_topic and parse_scene_topic succeed exactly on the
\* topics that start with their prefix and have their suffix after it with
\* between 1 and ID_SIZE - 1 characters in between, and return exactly
\* those characters; a message whose topic neither function accepts leaves
\* both rings empty.  The light-1 topic decodes to light-1, the topic with
\* an empty id and the topic without suffix do not decode.
C23_TopicDecode ==
    LET topic == hist.msg.topic
        dev == parse_device_topic(topic, ID_SIZE)
        scn == parse_scene_topic(topic, ID_SIZE)
    IN  /\ dev.ok <=> (DeviceIds # {})
        /\ dev.ok => DeviceIds = {dev.id}
        /\ scn.ok <=> (SceneIds # {})
        /\ scn.ok => SceneIds = {scn.id}
        /\ (Delivered /\ DeviceIds = {} /\ SceneIds = {}) =>
              state_head = state_tail /\ scene_head = scene_tail
        /\ (topic = DEVICE_PREFIX \o LIGHT_1 \o STATE_SUFFIX) =>
              dev.ok /\ dev.id = LIGHT_1
        /\ (topic = DEVICE_PREFIX \o STATE_SUFFIX) => ~dev.ok
        /\ (topic = DEVICE_PREFIX \o LIGHT_1) => ~dev.ok

\* A device topic whose id fills the buffer to its last character has been
\* delivered and its update is in the state ring.
C23_Witness ==
    /\ Delivered
    /\ hist.msg.topic = DEVICE_PREFIX \o Rep("x", ID_SIZE - 1) \o STATE_SUFFIX
    /\ state_head # state_tail
    /\ Pending(StateQ, StateSlots)[1].device_id = Rep("x", ID_SIZE - 1)

\* The payload was not empty and cJSON_ParseWithLength returned NULL
ParseFailed == hist.msg.payload.len > 0 /\ hist.msg.payload.json = JNULL
Parsed == hist.msg.payload.len > 0 /\ hist.msg.payload.json # JNULL

\* C24: after a message on a device-state or scene-activation topic whose
\* payload failed to parse, both rings are empty.
C24_MalformedDropped ==
    (Delivered /\ ParseFailed /\ (DeviceIds # {} \/ SceneIds # {})) =>
        /\ state_head = state_tail
        /\ scene_head = scene_tail

\* The field map of a payload: the value under "state" when the payload has
\* that member, the payload itself otherwise
FieldMap(json) ==
    IF json.type = "object" /\ "state" \in DOMAIN json.items
    THEN json.items["state"] ELSE json
HasRight(map, f) ==
    /\ map.type = "object"
    /\ f \in DOMAIN map.items
    /\ map.items[f].type = IF f = "on" THEN "bool" ELSE "number"

RoomIdOf(payload) ==
    IF /\ payload.len > 0
       /\ payload.json.type = "object"
       /\ "room_id" \in DOMAIN payload.json.items
       /\ payload.json.items["room_id"].type = "string"
    THEN payload.json.items["room_id"].v ELSE <<>>

SceneEventsEnqueued ==
    LET pending == Pending(SceneQ, SceneSlots)
    IN  /\ state_head = state_tail
        /\ Len(pending) = hist.msgs
        /\ \A i \in 1..Len(pending) :
              /\ pending[i].scene_id \in SceneIds
              /\ pending[i].room_id = RoomIdOf(hist.msg.payload)

----------------------------------------------------------------------------
(* SpecStore: the store, booted from replies longer than its arrays and    *)
(* then written by the two callbacks of the drain (app.c:27-56), the only   *)
(* callers of the store's mutators after boot.  The callbacks are called    *)
(* directly with what on_message decodes from the model's messages, in any  *)
(* order and any number of times; the rings in between are left out.        *)

MaxStoreOver == 1   \* devices and scenes in a reply beyond the arrays' sizes

OverDevices ==
    [i \in 1..(MAX_DEVICES_PER_ROOM + MaxStoreOver) |->
        IF i = 1 THEN DevA(d1)
        ELSE IF i = 2 THEN DevB(d2)
        ELSE Device(Rep("x", i), "Socket", r1, DOMAIN_LIGHTING, <<CAP_ON_OFF>>)]
OverScenes ==
    [i \in 1..(MAX_SCENES_PER_ROOM + MaxStoreOver) |->
        IF i = 1 THEN Scene(s1, "Day", r1, "#FFFFFF", "day", 1)
        ELSE IF i = 2 THEN Scene(s2, "Night", r1, "#000000", "night", 2)
        ELSE Scene(Rep("y", i), "Mood", r1, "#808080", "mood", i)]

app_init_over ==
    app_init_from({c \in Configs : c.room_id = r1},
                  {rooms \in RoomDirs : Len(rooms) > 0},
                  {OverDevices},
                  {[scenes |-> OverScenes, active |-> s1]})

s3 == <<"s", "3">>

\* The model's messages, and the activation of a scene of another room,
\* which the wildcard subscription also delivers
StoreMessages ==
    Messages \o
    <<[topic |-> SceneTopic(s3), payload |-> Payload(JObj([room_id |-> JStr(r2)]))]>>

\* hist.event is the last scene event passed to on_scene_event and
\* hist.before the store's active scene id when it was passed.
InitStore ==
    /\ state_queue = [i \in 0..(StateSlots - 1) |-> ZeroUpdate]
    /\ state_head = 0
    /\ state_tail = 0
    /\ scene_queue = [i \in 0..(SceneSlots - 1) |-> ZeroSceneEvent]
    /\ scene_head = 0
    /\ scene_tail = 0
    /\ store_data = ZeroRoomData
    /\ store_live = FALSE
    /\ AppNotStarted
    /\ hist = [msgs |-> 0, cmd |-> NoCmd, drain |-> NoDrain, drop |-> NoDrop,
               event |-> ZeroSceneEvent, before |-> <<>>]

\* app.c:27-44, called by the drain (mqtt_client.c:265) with an update
on_state_update_call ==
    /\ ui_pc = "main_loop"
    /\ networking_active
    /\ \E k \in 1..Len(StoreMessages) :
          LET d == Decode(StoreMessages[k])
          IN  /\ d.to = "state"
              /\ store_data' = on_state_update(store_data, d.entry)
    /\ UNCHANGED <<qvars, store_live, nvars, uvars, lvars, hist>>

\* app.c:46-56, called by the drain (mqtt_client.c:271) with a scene event
on_scene_event_call ==
    /\ ui_pc = "main_loop"
    /\ networking_active
    /\ \E k \in 1..Len(StoreMessages) :
          LET d == Decode(StoreMessages[k])
          IN  /\ d.to = "scene"
              /\ store_data' = on_scene_event(store_data, d.entry)
              /\ hist' = [hist EXCEPT !.event = d.entry,
                                      !.before = store_data.active_scene_id]
    /\ UNCHANGED <<qvars, store_live, nvars, uvars, lvars>>

NextStore ==
    \/ app_init_over
    \/ app_init_store
    \/ on_state_update_call
    \/ on_scene_event_call
    \/ cmd_toggle
    \/ cmd_set_level
    \/ cmd_set_position
    \/ cmd_set_setpoint
    \/ cmd_activate_scene

SpecStore == InitStore /\ [][NextStore]_vars

\* What of a room_data_t is loaded at boot and not state: the room, each
\* device's id, name, room, domain and capabilities, and the scenes
Structure(data) ==
    [room |-> data.room,
     devices |-> [i \in 1..Len(data.devices) |->
                    [id |-> data.devices[i].id, name |-> data.devices[i].name,
                     room_id |-> data.devices[i].room_id,
                     domain |-> data.devices[i].domain,
                     capabilities |-> data.devices[i].capabilities]],
     scenes |-> data.scenes]

\* C30: in every state the store holds at most MAX_DEVICES_PER_ROOM
\* devices and MAX_SCENES_PER_ROOM scenes, and no step taken after boot
\* changes the store's room, the number, order, ids, names, rooms, domains
\* or capabilities of its devices, or anything of its scenes.
C30_StructureImmutable ==
    /\ [](/\ Len(store_data.devices) <= MAX_DEVICES_PER_ROOM
          /\ Len(store_data.scenes) <= MAX_SCENES_PER_ROOM)
    /\ [][(Booted /\ store_data' # store_data) =>
              Structure(store_data') = Structure(store_data)]_vars

\* A store loaded from replies that were too long, after an update has
\* changed a device's state and a scene event the active scene.
C30_Witness ==
    /\ Booted
    /\ store_live
    /\ Len(store_data.devices) = MAX_DEVICES_PER_ROOM
    /\ Len(store_data.scenes) = MAX_SCENES_PER_ROOM
    /\ store_data.devices[1].level = 50
    /\ store_data.devices[2].temperature = 215
    /\ store_data.active_scene_id = s2

----------------------------------------------------------------------------
(* SpecConn: the life of the MQTT client, mqtt_client.c:129-147 and 210-257. *)
(* The LVGL thread calls mqtt_client_init, statement by statement, and       *)
(* mqtt_client_cleanup; the network thread, which exists from a successful   *)
(* mosquitto_loop_start to mosquitto_loop_stop, runs the callbacks.          *)

MaxInits == 2       \* calls of mqtt_client_init

DEVICE_STATE_FILTER == <<"g", "r", "a", "y", "l", "o", "g", "i", "c", "/", "c", "o", "r", "e", "/", "d", "e", "v", "i", "c", "e", "/", "+", "/", "s", "t", "a", "t", "e">>
SCENE_ACTIVATED_FILTER == <<"g", "r", "a", "y", "l", "o", "g", "i", "c", "/", "c", "o", "r", "e", "/", "s", "c", "e", "n", "e", "/", "+", "/", "a", "c", "t", "i", "v", "a", "t", "e", "d">>

\* A callback that subscribes whatever rc is
on_connect_subscribe_always(rc) == <<DEVICE_STATE_FILTER, SCENE_ACTIVATED_FILTER>>

\* mqtt_client.c:132-139: the mosquitto_subscribe calls of on_connect
on_connect_subscribe(rc) ==
    IF rc = 0 THEN <<DEVICE_STATE_FILTER, SCENE_ACTIVATED_FILTER>> ELSE <<>>

\* hist.handles counts the clients mosquitto_new has returned and
\* mosquitto_destroy has not yet freed, hist.loop says whether the network
\* thread runs, hist.last is the last call or callback that returned and
\* hist.link the last of: successful connect callback, disconnect callback,
\* cleanup.  Messages arrive through on_message as in the pipeline.
InitConn ==
    /\ state_queue = [i \in 0..(StateSlots - 1) |-> ZeroUpdate]
    /\ state_head = 0
    /\ state_tail = 0
    /\ scene_queue = [i \in 0..(SceneSlots - 1) |-> ZeroSceneEvent]
    /\ scene_head = 0
    /\ scene_tail = 0
    /\ store_data = ZeroRoomData
    /\ store_live = FALSE
    /\ mosq = FALSE
    /\ connected = FALSE
    /\ rest_initialised = FALSE
    /\ networking_active = FALSE
    /\ current_view = FALSE
    /\ scene_ctx = NoSceneCtx
    /\ ui_pc = "api"
    /\ live = FALSE
    /\ room_data = ZeroRoomData
    /\ count = 0
    /\ state_mutex = "free"
    /\ scene_mutex = "free"
    /\ worker_pc = "idle"
    /\ worker_arg = 0
    /\ out = 0
    /\ hist = [handles |-> 0, loop |-> FALSE, inits |-> 0, last |-> [fn |-> "none"],
               link |-> "none", msgs |-> 0, drop |-> NoDrop, drain |-> NoDrain]

InitReturned(ret) == [fn |-> "mqtt_client_init", ret |-> ret]

\* mqtt_client.c:210-219: a NULL cfg, mosquitto_new returning NULL, or a
\* client.  The program calls mqtt_client_init with no client in place
\* (app.c:107, once).
mqtt_client_init_new ==
    /\ ui_pc = "api"
    /\ ~mosq
    /\ hist.inits < MaxInits
    /\ \E path \in {"no_cfg", "no_client", "client"} :
          LET created == path = "client"
          IN  /\ mosq' = created
              /\ ui_pc' = IF created THEN "mqtt_connect" ELSE "api"
              /\ hist' = [hist EXCEPT !.inits = @ + 1,
                                      !.handles = IF created THEN @ + 1 ELSE @,
                                      !.last = IF created THEN @ ELSE InitReturned(FALSE)]
    /\ UNCHANGED <<qvars, svars, connected, rest_initialised, networking_active,
                   current_view, scene_ctx, live, room_data, count, lvars>>

\* mqtt_client.c:221-231
mqtt_client_init_connect ==
    /\ ui_pc = "mqtt_connect"
    /\ \E rc \in {0, 14} :
          IF rc # 0
          THEN /\ mosq' = FALSE
               /\ ui_pc' = "api"
               /\ hist' = [hist EXCEPT !.handles = @ - 1, !.last = InitReturned(FALSE)]
          ELSE /\ ui_pc' = "mqtt_loop_start"
               /\ UNCHANGED <<mosq, hist>>
    /\ UNCHANGED <<qvars, svars, connected, rest_initialised, networking_active,
                   current_view, scene_ctx, live, room_data, count, lvars>>

\* mqtt_client.c:233-244
mqtt_client_init_loop_start ==
    /\ ui_pc = "mqtt_loop_start"
    /\ \E rc \in {0, 10} :
          IF rc # 0
          THEN /\ mosq' = FALSE
               /\ hist' = [hist EXCEPT !.handles = @ - 1, !.last = InitReturned(FALSE)]
          ELSE /\ hist' = [hist EXCEPT !.loop = TRUE, !.last = InitReturned(TRUE)]
               /\ UNCHANGED mosq
    /\ ui_pc' = "api"
    /\ UNCHANGED <<qvars, svars, connected, rest_initialised, networking_active,
                   current_view, scene_ctx, live, room_data, count, lvars>>

\* mqtt_client.c:129-140, on the network thread
on_connect_callback ==
    /\ hist.loop
    /\ \E rc \in {0, 5} :
          /\ connected' = IF rc = 0 THEN TRUE ELSE connected
          /\ hist' = [hist EXCEPT
                        !.last = [fn |-> "on_connect", rc |-> rc, was |-> connected,
                                  subs |-> on_connect_subscribe(rc)],
                        !.link = IF rc = 0 THEN "connect" ELSE @]
    /\ UNCHANGED <<qvars, svars, mosq, rest_initialised, uvars, lvars>>

\* mqtt_client.c:142-147, on the network thread
on_disconnect_callback ==
    /\ hist.loop
    /\ connected' = FALSE
    /\ hist' = [hist EXCEPT !.last = [fn |-> "on_disconnect", was |-> connected],
                            !.link = "disconnect"]
    /\ UNCHANGED <<qvars, svars, mosq, rest_initialised, uvars, lvars>>

ClientState == [mosq |-> mosq, connected |-> connected, handles |-> hist.handles,
                loop |-> hist.loop]

\* A cleanup that destroys the client and keeps the pointer
mqtt_client_cleanup_dangling ==
    /\ ui_pc = "api"
    /\ connected' = FALSE
    /\ hist' = [hist EXCEPT
                  !.loop = FALSE,
                  !.handles = IF mosq THEN @ - 1 ELSE @,
                  !.last = [fn |-> "mqtt_client_cleanup", pre |-> ClientState,
                            prev |-> hist.last.fn,
                            calls |-> IF mosq
                                      THEN <<"mosquitto_loop_stop", "mosquitto_disconnect",
                                             "mosquitto_destroy", "mosquitto_lib_cleanup">>
                                      ELSE <<"mosquitto_lib_cleanup">>],
                  !.link = "cleanup"]
    /\ UNCHANGED <<qvars, svars, mosq, rest_initialised, uvars, lvars>>

\* mqtt_client.c:247-257.  mosquitto_loop_stop ends the network thread
\* before the call goes on.
mqtt_client_cleanup ==
    /\ ui_pc = "api"
    /\ mosq' = FALSE
    /\ connected' = FALSE
    /\ hist' = [hist EXCEPT
                  !.loop = FALSE,
                  !.handles = IF mosq THEN @ - 1 ELSE @,
                  !.last = [fn |-> "mqtt_client_cleanup", pre |-> ClientState,
                            prev |-> hist.last.fn,
                            calls |-> IF mosq
                                      THEN <<"mosquitto_loop_stop", "mosquitto_disconnect",
                                             "mosquitto_destroy", "mosquitto_lib_cleanup">>
                                      ELSE <<"mosquitto_lib_cleanup">>],
                  !.link = "cleanup"]
    /\ UNCHANGED <<qvars, svars, rest_initialised, uvars, lvars>>

NextConn ==
    \/ mqtt_client_init_new
    \/ mqtt_client_init_connect
    \/ mqtt_client_init_loop_start
    \/ on_connect_callback
    \/ on_disconnect_callback
    \/ on_message
    \/ mqtt_client_cleanup

SpecConn == InitConn /\ [][NextConn]_vars

NoClient == [mosq |-> FALSE, connected |-> FALSE, handles |-> 0, loop |-> FALSE]

\* C27: when mqtt_client_cleanup has returned, whatever the client's state
\* was when it was called, there is no network thread, no client (mosq is
\* NULL and every client created has been destroyed) and the connected flag
\* is false, and a cleanup called right after a cleanup found that state and
\* left it; when mqtt_client_init has returned false it has left mosq NULL
\* and destroyed the client it created; at every point there is a live
\* client exactly when mosq is set.
C27_TeardownSafe ==
    /\ hist.handles = IF mosq THEN 1 ELSE 0
    /\ hist.loop => mosq
    /\ connected => hist.loop
    /\ (ui_pc = "api" /\ hist.last.fn = "mqtt_client_cleanup") =>
          /\ ClientState = NoClient
          /\ (hist.last.prev = "mqtt_client_cleanup") => hist.last.pre = NoClient
          /\ hist.last.calls[Len(hist.last.calls)] = "mosquitto_lib_cleanup"
          /\ hist.last.pre.mosq <=> (Len(hist.last.calls) = 4)
    /\ (ui_pc = "api" /\ hist.last.fn = "mqtt_client_init" /\ ~hist.last.ret) =>
          ClientState = NoClient

\* A running, connected client has been cleaned up.
C27_Witness ==
    /\ ui_pc = "api"
    /\ hist.last.fn = "mqtt_client_cleanup"
    /\ hist.last.pre.mosq
    /\ hist.last.pre.loop
    /\ hist.last.pre.connected
    /\ ~mosq

\* C28: when a connect callback has returned, if its rc was 0 the connected
\* flag is true and it made exactly two subscriptions, to the device-state
\* topic and the scene-activation topic with "+" for the id; otherwise it
\* made none and the connected flag is what it was before.
C28_SubscribeOnConnect ==
    (hist.last.fn = "on_connect") =>
        IF hist.last.rc = 0
        THEN /\ connected
             /\ hist.last.subs = <<DEVICE_PREFIX \o <<"+">> \o STATE_SUFFIX,
                                   SCENE_PREFIX \o <<"+">> \o ACTIVATED_SUFFIX>>
        ELSE /\ connected = hist.last.was
             /\ hist.last.subs = <<>>

\* A refused connection was reported to a client that was not connected.
C28_Witness ==
    /\ hist.last.fn = "on_connect"
    /\ hist.last.rc = 5
    /\ ~hist.last.was
    /\ ~connected
    /\ hist.inits = 2

----------------------------------------------------------------------------
(* Range of the narrowed fields (SpecApply) *)

\* C31: every device of the store has its level and its position in 0..100.
C31_LevelRange ==
    \A i \in 1..Len(store_data.devices) :
        /\ store_data.devices[i].level \in 0..100
        /\ store_data.devices[i].position \in 0..100

----------------------------------------------------------------------------
(* References kept by the room view (Spec) *)

\* C32: once app_init has returned, the scene list the scene buttons read
\* their ids from is the store's (or none, when the view was built without
\* scenes), not app_init's local room_data.
C32_NoBootReference ==
    Booted => scene_ctx.scenes \in {"NULL", "store_data"}

----------------------------------------------------------------------------
(* The per-device refresh (Spec) *)

\* One turn of the drain's state loop that passes an update to on_state_update
StateApplied ==
    /\ ui_pc = "drain_state"
    /\ state_head # state_tail
    /\ state_tail' # state_tail
    /\ state_head' = state_head

\* The refresh of the device an update is addressed to, with the value the
\* device has once the update's fields are assigned
UpdateDeviceCall(update, data) ==
    LET i == FindDevice(data, update.device_id)
    IN  [fn |-> "scr_room_view_update_device", device_id |-> update.device_id,
         dev |-> apply_fields(data.devices[i], update)]

----------------------------------------------------------------------------
(* Order of the callbacks in a drain (Spec) *)

SceneQ1 == Queue(scene_queue', scene_head', scene_tail')

\* C34: each state callback of a drain is passed the oldest update the state
\* ring holds at that moment, which leaves the ring, and is made before any
\* scene callback of that drain; each scene callback is passed the oldest
\* event of the scene ring, and no state callback follows it.
C34_DrainOrder ==
    [][/\ StateApplied =>
            /\ hist'.drain.states
                  = Append(hist.drain.states, Head(Pending(StateQ, StateSlots)))
            /\ Pending(StateQ1, StateSlots) = Tail(Pending(StateQ, StateSlots))
            /\ hist.drain.scenes = <<>>
            /\ hist'.drain.scenes = <<>>
       /\ SceneTurn =>
            /\ hist'.drain.scenes
                  = Append(hist.drain.scenes, Head(Pending(SceneQ, SceneSlots)))
            /\ Pending(SceneQ1, SceneSlots) = Tail(Pending(SceneQ, SceneSlots))
            /\ hist'.drain.states = hist.drain.states
       /\ (hist.drain.active /\ hist'.drain.active /\ ui_pc # "drain_state") =>
            hist'.drain.states = hist.drain.states]_vars

\* A drain that found a scene event and no state update has returned after
\* passing two state updates, which arrived during its state loop, in their
\* order of arrival and then the scene event.
C34_Witness ==
    /\ ui_pc = "drain_return"
    /\ hist.drain.state0 = <<>>
    /\ Len(hist.drain.scene0) = 1
    /\ Len(hist.drain.states) = 2
    /\ hist.drain.states[1] # hist.drain.states[2]
    /\ hist.drain.scenes = hist.drain.scene0

----------------------------------------------------------------------------
(* The active scene (SpecStore) *)

\* C35: after boot the store's active scene id is empty or the id of one of
\* the store's scenes.
C35_ActiveSceneValid ==
    Booted =>
        \/ store_data.active_scene_id = <<>>
        \/ \E i \in 1..Len(store_data.scenes) :
              store_data.scenes[i].id = store_data.active_scene_id

\* C36: when the last scene event passed to on_scene_event names a room
\* other than the store's, the active scene id is what it was before the
\* event.
C36_OtherRoomIgnored ==
    (hist.event.room_id # <<>> /\ hist.event.room_id # store_data.room.id) =>
        store_data.active_scene_id = hist.before

----------------------------------------------------------------------------
(* SpecLive: the pipeline with a main loop that keeps running.  The boot    *)
(* finds a valid configuration, the broker delivers up to MaxLiveMsgs       *)
(* messages out of LiveMessages, at any moment from the start of the        *)
(* network thread on.  hist.early says that a message was enqueued while    *)
(* app_init had not yet returned.                                           *)

MaxLiveMsgs == 3

\* A device message that carries a health status, at the top level and
\* under "state", as a number and under Core's name for it as a string
HealthMessage ==
    [topic |-> DeviceTopic(d1),
     payload |-> Payload(JObj([health |-> JNum(HEALTH_OFFLINE),
                               health_status |-> JStr(<<"o", "f", "f">>),
                               state |-> JObj([on |-> JBool(TRUE),
                                               health |-> JNum(HEALTH_OFFLINE),
                                               health_status |-> JStr(<<"o", "f", "f">>)])]))]

LiveMessages == <<Messages[1], Messages[3], Messages[6]>>

StaticMessages == LiveMessages \o <<HealthMessage>>

InitLive ==
    /\ state_queue = [i \in 0..(StateSlots - 1) |-> ZeroUpdate]
    /\ state_head = 0
    /\ state_tail = 0
    /\ scene_queue = [i \in 0..(SceneSlots - 1) |-> ZeroSceneEvent]
    /\ scene_head = 0
    /\ scene_tail = 0
    /\ store_data = ZeroRoomData
    /\ store_live = FALSE
    /\ AppNotStarted
    /\ hist = [msgs |-> 0, cmd |-> NoCmd, drain |-> NoDrain, drop |-> NoDrop,
               early |-> FALSE]

app_init_valid ==
    app_init_from({c \in Configs : panel_config_is_valid(c)}, RoomDirs, DeviceLoads,
                  SceneLoads)

\* mqtt_client.c:149-206, on the network thread
on_message_from(msgs) ==
    /\ mosq
    /\ connected
    /\ hist.msgs < MaxLiveMsgs
    /\ \E k \in 1..Len(msgs) : on_message_deliver(msgs[k])
    /\ UNCHANGED <<svars, nvars, uvars, lvars>>

on_message_live == on_message_from(LiveMessages)

on_message_static == on_message_from(StaticMessages)

\* The steps of the LVGL thread: app_init, then main.c:31-35 for ever
MainThread ==
    \/ app_init_valid
    \/ app_init_store
    \/ app_tick
    \/ drain_state_loop
    \/ drain_scene_loop
    \/ app_tick_return

NextLive ==
    \/ MainThread
    \/ on_connect
    \/ on_disconnect
    \/ on_message_live

\* main never leaves its loop and no step of the LVGL thread blocks for
\* ever (the mutexes are held for a bounded copy, C14), so the thread's next
\* step is eventually taken.  Nothing is assumed of the network thread.
SpecLive == InitLive /\ [][NextLive]_vars /\ WF_vars(MainThread)

\* C37: whenever a ring holds an event, it is empty at some later moment:
\* every event that was pending has by then been passed to its callback or
\* dropped by an overflow.
C37_EventuallyApplied ==
    /\ (state_head # state_tail) ~> (state_head = state_tail)
    /\ (scene_head # scene_tail) ~> (scene_head = scene_tail)

C37_Witness ==
    /\ hist.early
    /\ hist.msgs = 1
    /\ ui_pc = "drain_return"
    /\ state_head = state_tail
    /\ scene_head = scene_tail
    /\ hist.drain.ret = 1

----------------------------------------------------------------------------
(* Termination of the drain (SpecLive) *)

\* The callbacks the drain in progress has invoked
Invocations == Len(hist.drain.states) + Len(hist.drain.scenes)

\* C38: a drain that was entered returns to the main loop, and a drain
\* during which nothing was enqueued invokes no more callbacks than there
\* were state updates and scene events pending when it was entered.
C38_DrainTerminates ==
    /\ (ui_pc = "drain_state") ~> (ui_pc = "main_loop")
    /\ []((hist.drain.active /\ ~hist.drain.enq)
            => Invocations <= Len(hist.drain.state0) + Len(hist.drain.scene0))

C38_Witness ==
    /\ ui_pc = "drain_return"
    /\ ~hist.drain.enq
    /\ Len(hist.drain.state0) = 2
    /\ Len(hist.drain.scene0) = 1
    /\ Invocations = 3

----------------------------------------------------------------------------
(* SpecStatic: the pipeline of Spec with the messages of StaticMessages and *)
(* with app_cleanup, which the embedding program may call from the LVGL     *)
(* thread between two ticks.  hist.cleaned: app_cleanup has been called.    *)

InitStatic ==
    /\ state_queue = [i \in 0..(StateSlots - 1) |-> ZeroUpdate]
    /\ state_head = 0
    /\ state_tail = 0
    /\ scene_queue = [i \in 0..(SceneSlots - 1) |-> ZeroSceneEvent]
    /\ scene_head = 0
    /\ scene_tail = 0
    /\ store_data = ZeroRoomData
    /\ store_live = FALSE
    /\ AppNotStarted
    /\ hist = [msgs |-> 0, cmd |-> NoCmd, drain |-> NoDrain, drop |-> NoDrop,
               cleaned |-> FALSE]

\* A cleanup that leaves networking_active set
app_cleanup_still_active ==
    /\ ui_pc = "main_loop"
    /\ IF networking_active
       THEN /\ mosq' = FALSE
            /\ connected' = FALSE
            /\ rest_initialised' = rest_client_cleanup(rest_initialised)
       ELSE UNCHANGED nvars
    /\ hist' = [hist EXCEPT !.cleaned = TRUE, !.cmd = NoCmd]
    /\ UNCHANGED <<qvars, svars, uvars, lvars>>

\* app.c:152-159, with mqtt_client_cleanup (mqtt_client.c:247-257), which
\* stops the network thread, and rest_client_cleanup
app_cleanup ==
    /\ ui_pc = "main_loop"
    /\ IF networking_active
       THEN /\ mosq' = FALSE
            /\ connected' = FALSE
            /\ rest_initialised' = rest_client_cleanup(rest_initialised)
            /\ networking_active' = FALSE
       ELSE UNCHANGED <<nvars, networking_active>>
    /\ hist' = [hist EXCEPT !.cleaned = TRUE, !.cmd = NoCmd]
    /\ UNCHANGED <<qvars, svars, current_view, scene_ctx, ui_pc, live, room_data,
                   count, lvars>>

NextStatic ==
    \/ app_init
    \/ app_init_store
    \/ app_tick
    \/ drain_state_loop
    \/ drain_scene_loop
    \/ app_tick_return
    \/ cmd_toggle
    \/ cmd_set_level
    \/ cmd_set_position
    \/ cmd_set_setpoint
    \/ cmd_activate_scene
    \/ on_connect
    \/ on_disconnect
    \/ on_message_static
    \/ app_cleanup

SpecStatic == InitStatic /\ [][NextStatic]_vars

\* The boot took the demo branch of app_init
Fallback == Booted /\ ~store_live

\* C39: after a boot that ended in the demo branch no drain is ever entered,
\* no command issues a request and the store holds the demo dataset; and
\* once app_cleanup has been called no drain is entered.
C39_FallbackStatic ==
    /\ Fallback => /\ ~networking_active
                   /\ ui_pc = "main_loop"
                   /\ ~hist.cmd.issued
                   /\ store_data = data_store_init(demo_data_create)
    /\ hist.cleaned => /\ ~networking_active
                       /\ ui_pc = "main_loop"

C39_Witness ==
    /\ Fallback
    /\ hist.cleaned
    /\ hist.cmd.name = "set_level"

----------------------------------------------------------------------------
(* Health (SpecStatic) *)

\* C40: no slot of the state ring ever holds an update with its health
\* marked present, and after the boot no step changes the health of a
\* device of the store.
C40_HealthNeverPushed ==
    /\ [](\A i \in 0..(StateSlots - 1) : ~state_queue[i].has_health)
    /\ [][Booted => /\ Len(store_data'.devices) = Len(store_data.devices)
                    /\ \A i \in 1..Len(store_data.devices) :
                          store_data'.devices[i].health = store_data.devices[i].health]_vars

\* The drain has applied the update of HealthMessage to a device of the store
C40_Witness ==
    /\ ui_pc = "drain_return"
    /\ FindDevice(hist.drain.store0, d1) # 0
    /\ \E k \in 1..Len(hist.drain.states) :
          /\ hist.drain.states[k] = Decode(HealthMessage).entry
          /\ hist.drain.states[k].has_on
          /\ store_data.devices[FindDevice(store_data, d1)].on

====
